---- MODULE Spec2Model ----
(***************************************************************************)
(* A model of the Monte Carlo integrator MCI (src/src/MCIntegrator.cpp):   *)
(* integrate(), findMRT2Step(), initialDecorrelation(), the two sample()   *)
(* overloads and the two MC steps, together with the collaborators they    *)
(* drive (walker state, domain, trial move, sampling functions, observable *)
(* container with its accumulators and estimators).                        *)
(*                                                                         *)
(* Numbers.  Doubles are modelled by exact rationals <<n, d>> (d > 0, in   *)
(* lowest terms).  Lengths are measured in units of SMALLEST_STEP, the     *)
(* floor findMRT2Step puts under every step size, and walker positions    *)
(* live on the integer grid of that unit.  Statistical errors are carried  *)
(* as their squares, so that no square root is needed: err >= 0 always,    *)
(* so err and err^2 determine each other.                                  *)
(***************************************************************************)
EXTENDS Integers, Sequences, FiniteSets, TLC

\* ---------------------------------------------------------------- bounds

\* Length of one sampling batch of findMRT2Step / initialDecorrelation.  The
\* code uses max(100, sqrt(40000 ndim)/nranks); the model runs the same loops
\* with a short batch.
MinStat == 2
\* Largest main-run length Nmc the caller asks for.
MaxNmc == 2
\* Largest number of integrate() calls in one behaviour.
MaxCalls == 1
\* Largest number of observables in the container.
MaxObs == 1

\* ------------------------------------------------------------- rationals

RECURSIVE Gcd(_, _)
Gcd(a, b) == IF b = 0 THEN a ELSE Gcd(b, a % b)

Abs(n) == IF n < 0 THEN -n ELSE n

\* n/d in lowest terms with a positive denominator; as for doubles, x/0 is
\* +inf (<<1, 0>>) for x > 0, -inf (<<-1, 0>>) for x < 0 and NaN (<<0, 0>>) for
\* x = 0.
Rat(n, d) ==
    IF d = 0 THEN <<IF n > 0 THEN 1 ELSE IF n < 0 THEN -1 ELSE 0, 0>>
    ELSE LET g == Gcd(Abs(n), Abs(d))
             s == IF d < 0 THEN -1 ELSE 1
         IN  <<(s * n) \div g, (s * d) \div g>>

RInt(n) == <<n, 1>>

RAdd(p, q) == Rat(p[1] * q[2] + q[1] * p[2], p[2] * q[2])

RSub(p, q) == Rat(p[1] * q[2] - q[1] * p[2], p[2] * q[2])

RMul(p, q) == Rat(p[1] * q[1], p[2] * q[2])

\* p / q for q # 0.
RDiv(p, q) == Rat(p[1] * q[2], p[2] * q[1])

\* p < q and p <= q on doubles: false when one of them is NaN.
RLt(p, q) == p # <<0, 0>> /\ q # <<0, 0>> /\ p[1] * q[2] < q[1] * p[2]

RLe(p, q) == p # <<0, 0>> /\ q # <<0, 0>> /\ p[1] * q[2] <= q[1] * p[2]

RAbs(p) == <<Abs(p[1]), p[2]>>

\* std::min(a, b) and std::max(a, b) on doubles.
RMin(p, q) == IF RLt(q, p) THEN q ELSE p

RMax(p, q) == IF RLt(p, q) THEN q ELSE p

RZero == <<0, 1>>

ROne == <<1, 1>>

RECURSIVE SeqSum(_)
SeqSum(s) == IF s = <<>> THEN RZero ELSE RAdd(Head(s), SeqSum(Tail(s)))

\* ------------------------------------------------------------ parameters

\* MCI::MCI(ndim): the number of walker coordinates.
NDIM == 2

Dims == 1..NDIM

\* Half width of the window of grid positions a walker on an unbound domain
\* is followed in.
MaxX == 1

\* MIN_STAT of findMRT2Step and MIN_NMC of initialDecorrelation: the length of
\* one sampling batch.
MIN_STAT == MinStat

MIN_NMC == MinStat

MIN_CONS == 5

\* TOLERANCE = 0.05
TOLERANCE == <<1, 20>>

\* std::numeric_limits<float>::min(), the unit of length of the model.
SMALLEST_ACCEPTABLE_DOUBLE == 1

\* The draws u of _rd(_rgen), uniform in [0, 1), that the model follows.
UDraws == {<<0, 1>>, <<3, 4>>}

\* ----------------------------------------------------------------- domain
\* A domain is [finite, size]: UnboundDomain, or OrthoPeriodicDomain with the
\* bounds [0, size[i]) in dimension i.

UnboundDomain == [finite |-> FALSE, size |-> [i \in Dims |-> 0]]

OrthoPeriodicDomain(sz) == [finite |-> TRUE, size |-> sz]

RECURSIVE Prod(_, _)
Prod(f, S) == IF S = {} THEN 1
              ELSE LET i == CHOOSE j \in S : TRUE IN f[i] * Prod(f, S \ {i})

getVolume(d) == Prod(d.size, Dims)

\* applyDomain(x[]): wrap every coordinate into the periodic box.
applyDomain(d, x) == IF d.finite THEN [i \in Dims |-> x[i] % d.size[i]] ELSE x

\* applyDomain(WalkerState): wrap only the changed coordinates of xnew.
applyDomainSelective(d, x, changed) ==
    IF d.finite
    THEN [i \in Dims |-> IF i \in changed THEN x[i] % d.size[i] ELSE x[i]]
    ELSE x

\* The grid positions inside the domain.
Positions(d) ==
    IF d.finite
    THEN {x \in [Dims -> 0..3] : \A i \in Dims : x[i] < d.size[i]}
    ELSE [Dims -> (-MaxX)..MaxX]

\* ----------------------------------------------------------- walker state

WalkerInit(x) ==
    [xold |-> x, xnew |-> x, nchanged |-> 0, changedIdx |-> {}, accepted |-> FALSE]

\* WalkerState::initialize: xnew starts from xold.
WalkerInitialize(w) == [w EXCEPT !.xnew = w.xold]

\* WalkerState::newToOld: the proposal becomes the accepted position.
WalkerNewToOld(w) == [w EXCEPT !.xold = w.xnew, !.nchanged = 0, !.changedIdx = {}]

\* WalkerState::oldToNew: the proposal is dropped.
WalkerOldToNew(w) == [w EXCEPT !.xnew = w.xold, !.nchanged = 0, !.changedIdx = {}]

\* ------------------------------------------------------ sampling functions
\* A sampling function is [id, protonew, protoold] with one proto value, its
\* density at the position.

PdfIds == {"flat", "peak"}

protoFunctionPdf(id, x) ==
    CASE id = "flat" -> 1
      [] id = "peak" -> IF x[1] = 0 THEN 2 ELSE 1
      [] id = "edge" -> IF x[1] = 1 THEN 0 ELSE 1

PdfNew(id) == [id |-> id, protonew |-> 0, protoold |-> 0]

\* ProtoFunctionInterface::computeOldProtoValues
PdfComputeOld(f, x) ==
    [f EXCEPT !.protonew = protoFunctionPdf(f.id, x),
              !.protoold = protoFunctionPdf(f.id, x)]

PdfNewToOld_Backwards(f) == [f EXCEPT !.protonew = f.protoold]

PdfNewToOld(f) == [f EXCEPT !.protoold = f.protonew]

PdfOldToNew(f) == [f EXCEPT !.protonew = f.protoold]

hasPDF(cont) == Len(cont) > 0

\* SamplingFunctionContainer::initializeProtoValues
PdfContInitialize(cont, x) == [k \in 1..Len(cont) |-> PdfComputeOld(cont[k], x)]

\* SamplingFunctionContainer::computeAcceptance, the new proto values
PdfContPropose(cont, x) ==
    [k \in 1..Len(cont) |-> [cont[k] EXCEPT !.protonew = protoFunctionPdf(cont[k].id, x)]]

RECURSIVE AccProduct(_, _)
AccProduct(cont, k) ==
    IF k = 0 THEN ROne
    ELSE RMul(Rat(cont[k].protonew, cont[k].protoold), AccProduct(cont, k - 1))

\* SamplingFunctionContainer::computeAcceptance, the product of p(new)/p(old)
PdfContAcceptance(cont) == AccProduct(cont, Len(cont))

PdfContNewToOld(cont) == [k \in 1..Len(cont) |-> PdfNewToOld(cont[k])]

PdfContOldToNew(cont) == [k \in 1..Len(cont) |-> PdfOldToNew(cont[k])]

\* -------------------------------------------------------------- trial move
\* A trial move is [kind, nss, idx, step, protonew, protoold]: kind "all" moves
\* every coordinate and kind "single" one of them; nss is the number of step
\* sizes, step[j] (j in 1..nss) their values and idx[i] the step size used by
\* dimension i.  Its one proto value is a function of the position.

protoFunctionMove(x) == x[1]

\* ProtoFunctionInterface::computeOldProtoValues, for the trial move
MoveComputeOld(tm, x) ==
    [tm EXCEPT !.protonew = protoFunctionMove(x), !.protoold = protoFunctionMove(x)]

MoveNewToOld(tm) == [tm EXCEPT !.protoold = tm.protonew]

MoveOldToNew(tm) == [tm EXCEPT !.protonew = tm.protoold]

hasStepSizes(tm) == tm.nss > 0

\* The grid displacements a move of step size s draws from.
Displacements(s) == IF RLe(ROne, s) THEN {-1, 0, 1} ELSE {0}

MoveDisplacements(tm, i) ==
    IF tm.nss = 0 THEN {-1, 0, 1} ELSE Displacements(tm.step[tm.idx[i]])

\* TrialMoveInterface::computeTrialMove: the proposals [xnew, changedIdx] it can
\* make from xold; the proposal density is symmetric, so its acceptance factor
\* is 1.
MoveProposals(tm, xold) ==
    IF tm.kind = "all"
    THEN {[xnew |-> [i \in Dims |-> xold[i] + dv[i]], changedIdx |-> Dims] :
              dv \in {v \in [Dims -> {-1, 0, 1}] :
                          \A i \in Dims : v[i] \in MoveDisplacements(tm, i)}}
    ELSE UNION {{[xnew |-> [xold EXCEPT ![k] = xold[k] + dk], changedIdx |-> {k}] :
                     dk \in MoveDisplacements(tm, k)} : k \in Dims}

\* TrialMoveInterface::scaleStepSizes
scaleStepSizes(tm, fact) ==
    [tm EXCEPT !.step = [j \in 1..tm.nss |-> RMul(tm.step[j], fact)]]

setStepSize(tm, j, v) == [tm EXCEPT !.step[j] = v]

\* ------------------------------------------------------------- observables
\* Observable functions: a constant, the first coordinate, a partial function
\* that raises at x[1] = 1, the first coordinate as the sampling functions
\* prepared it (one value each), and the position itself (NDIM values).

\* Constval: out[0] = 1.3
CONSTVAL == <<13, 10>>

observableFunction(id, x) ==
    CASE id = "const" -> CONSTVAL
      [] id = "x1" -> RInt(x[1])
      [] id = "partial" -> RInt(x[1])
      [] id = "pdfx1" -> RInt(x[1])

\* Does the observable read what the sampling functions prepared for it.
ObsDependsOnPDF(id) == id = "pdfx1"

observableRaises(id, x) == id = "partial" /\ x[1] = 1

\* The number of values the observable function writes.
ObsNObs(id) == IF id = "xnd" THEN NDIM ELSE 1

\* out[0 .. nobs-1] of the observable function at x (XND copies x).
observableValues(id, x) ==
    IF id = "xnd" THEN [j \in 1..NDIM |-> RInt(x[j])]
    ELSE <<observableFunction(id, x)>>

\* ------------------------------------------------------------ accumulators
\* An accumulator is [obs, est, nskip, equil, nblocks, nsteps, stepidx, final,
\* data]: the Noop estimator is paired with a SimpleAccumulator (one running
\* sum), the estimators that compute an error with a FullAccumulator (every
\* evaluation); nblocks > 0 makes it a BlockAccumulator (one sum per block).
\* data holds getNStore() rows of getNObs() values, row after row.

EstimatorTypes == {"Noop", "Uncorrelated", "Correlated"}

AccuNew(obs, est, nskip, equil) ==
    [obs |-> obs, est |-> est, nskip |-> nskip, equil |-> equil, nblocks |-> 0,
     nsteps |-> 0, stepidx |-> 0, final |-> FALSE, data |-> <<>>]

\* A BlockAccumulator with nblocks blocks.
AccuNewBlock(obs, nskip, nblocks) ==
    [AccuNew(obs, "Uncorrelated", nskip, FALSE) EXCEPT !.nblocks = nblocks]

getNObs(a) == ObsNObs(a.obs)

getNSteps(a) == a.nsteps

getNAccu_RoundDown(a) == IF a.nsteps > 0 THEN a.nsteps \div a.nskip ELSE 0

getNAccu(a) == IF a.nsteps > 0 THEN 1 + (a.nsteps - 1) \div a.nskip ELSE 0

getStepIndex(a) == a.stepidx

isAllocated(a) == a.nsteps > 0

isClean(a) == a.stepidx = 0

isFinalized(a) == a.final

getNStore(a) ==
    IF a.nblocks > 0 THEN (IF a.nsteps > 0 THEN a.nblocks ELSE 0)
    ELSE IF a.est = "Noop" THEN (IF a.nsteps > 0 THEN 1 ELSE 0) ELSE getNAccu(a)

getNData(a) == getNStore(a) * getNObs(a)

AccuReset_KeepSum(a) ==
    [a EXCEPT !.stepidx = 0, !.final = FALSE,
              !.data = IF a.est = "Noop" /\ Len(a.data) = getNData(a) THEN a.data
                       ELSE [k \in 1..getNData(a) |-> RZero]]

AccuReset_KeepData(a) == [a EXCEPT !.stepidx = 0, !.final = FALSE]

AccuReset(a) ==
    [a EXCEPT !.stepidx = 0, !.final = FALSE,
              !.data = [k \in 1..getNData(a) |-> RZero]]

AccuDeallocate_KeepIndex(a) == [a EXCEPT !.nsteps = 0, !.data = <<>>]

AccuDeallocate(a) ==
    [a EXCEPT !.nsteps = 0, !.stepidx = 0, !.final = FALSE, !.data = <<>>]

AccuAllocate_KeepSameSize(a, n) ==
    IF a.nsteps = n THEN a
    ELSE [a EXCEPT !.nsteps = n, !.stepidx = 0, !.final = FALSE,
                   !.data = [k \in 1..getNData([a EXCEPT !.nsteps = n]) |-> RZero]]

AccuAllocate(a, n) == AccuReset([AccuDeallocate(a) EXCEPT !.nsteps = n])

\* accumulate with the evaluations past the last block added to the last block.
AccuAccumulate_IntoLastBlock(a, x) ==
    LET v == observableValues(a.obs, x)
        nobs == getNObs(a)
        accuIdx == a.stepidx \div a.nskip
        blk == accuIdx \div (getNAccu(a) \div a.nblocks)
        row == IF a.nblocks > 0
               THEN (IF blk >= a.nblocks THEN a.nblocks - 1 ELSE blk)
               ELSE IF a.est = "Noop" THEN 0 ELSE accuIdx
        d == IF a.stepidx % a.nskip # 0 THEN a.data
             ELSE [k \in 1..Len(a.data) |->
                     IF (k - 1) \div nobs # row THEN a.data[k]
                     ELSE IF a.nblocks > 0 \/ a.est = "Noop"
                          THEN RAdd(a.data[k], v[((k - 1) % nobs) + 1])
                          ELSE v[((k - 1) % nobs) + 1]]
    IN  [a EXCEPT !.data = d, !.stepidx = a.stepidx + 1]

\* accumulate(wlk): every nskip-th step evaluates the observable at the walker's
\* position and stores the values (added to the one row of a SimpleAccumulator,
\* written to the next row of a FullAccumulator, added to the row accuIdx / L of
\* a BlockAccumulator with block length L = getNAccu / nblocks, steps past the
\* last block dropped).
AccuAccumulate(a, x) ==
    LET v == observableValues(a.obs, x)
        nobs == getNObs(a)
        accuIdx == a.stepidx \div a.nskip
        row == IF a.nblocks > 0 THEN accuIdx \div (getNAccu(a) \div a.nblocks)
               ELSE IF a.est = "Noop" THEN 0 ELSE accuIdx
        d == IF a.stepidx % a.nskip # 0 THEN a.data
             ELSE [k \in 1..Len(a.data) |->
                     IF (k - 1) \div nobs # row THEN a.data[k]
                     ELSE IF a.nblocks > 0 \/ a.est = "Noop"
                          THEN RAdd(a.data[k], v[((k - 1) % nobs) + 1])
                          ELSE v[((k - 1) % nobs) + 1]]
    IN  [a EXCEPT !.data = d, !.stepidx = a.stepidx + 1]

\* finalize() raises when called before all nsteps steps were accumulated.
AccuFinalizeRaises(a) == a.nsteps > 0 /\ ~a.final /\ a.stepidx # a.nsteps

AccuFinalize_Again(a) ==
    IF a.nsteps = 0 THEN a
    ELSE [a EXCEPT !.final = TRUE,
                   !.data = IF a.est = "Noop"
                            THEN [k \in 1..Len(a.data) |->
                                    RDiv(a.data[k], RInt(getNAccu(a)))]
                            ELSE a.data]

AccuFinalize_BlocksByNAccu(a) ==
    IF a.nsteps = 0 \/ a.final THEN a
    ELSE [a EXCEPT !.final = TRUE,
                   !.data = IF a.nblocks > 0 \/ a.est = "Noop"
                            THEN [k \in 1..Len(a.data) |->
                                    RDiv(a.data[k], RInt(getNAccu(a)))]
                            ELSE a.data]

\* finalize(): nothing when deallocated or finalized already; else normalize
\* (the sum by getNAccu, every block by the block length).
AccuFinalize(a) ==
    IF a.nsteps = 0 \/ a.final THEN a
    ELSE [a EXCEPT !.final = TRUE,
                   !.data = IF a.nblocks > 0
                            THEN [k \in 1..Len(a.data) |->
                                    RDiv(a.data[k], RInt(getNAccu(a) \div a.nblocks))]
                            ELSE IF a.est = "Noop"
                            THEN [k \in 1..Len(a.data) |->
                                    RDiv(a.data[k], RInt(getNAccu(a)))]
                            ELSE a.data]

\* -------------------------------------------------------------- estimators
\* An estimate is [avg, err2]: the average and the square of its error.

Mean(xs) == RDiv(SeqSum(xs), RInt(Len(xs)))

\* err^2 = sample variance / N (0 for a single sample)
NaiveErr2(xs) ==
    LET n == Len(xs)
        m == Mean(xs)
        sq == [k \in 1..n |-> RMul(RSub(xs[k], m), RSub(xs[k], m))]
    IN  IF n > 1 THEN RDiv(SeqSum(sq), RInt(n * (n - 1))) ELSE RZero

\* One blocking step: the averages of adjacent pairs (an odd tail is dropped).
PairAverage(xs) ==
    [k \in 1..(Len(xs) \div 2) |-> RDiv(RAdd(xs[2 * k - 1], xs[2 * k]), RInt(2))]

\* Flyvbjerg-Petersen blocking: the largest naive error over all levels.
RECURSIVE BlockingErr2(_)
BlockingErr2(xs) ==
    IF Len(xs) < 2 THEN RZero
    ELSE RMax(NaiveErr2(xs), BlockingErr2(PairAverage(xs)))

Estimator(est, data) ==
    CASE est = "Noop" -> [avg |-> data[1], err2 |-> RZero]
      [] est = "Uncorrelated" -> [avg |-> Mean(data), err2 |-> NaiveErr2(data)]
      [] est = "Correlated" -> [avg |-> Mean(data), err2 |-> BlockingErr2(data)]

\* ---------------------------------------------------- observable container
\* The container is the sequence of its accumulators (each with its estimator
\* and needs-equilibration flag).

ContAllocate(cont, n) == [k \in 1..Len(cont) |-> AccuAllocate(cont[k], n)]

ContReset(cont) == [k \in 1..Len(cont) |-> AccuReset(cont[k])]

ContDeallocate(cont) == [k \in 1..Len(cont) |-> AccuDeallocate(cont[k])]

\* accumulate(wlk), the first n accumulators only (all of them: n = Len(cont))
ContAccumulate(cont, x, n) ==
    [k \in 1..Len(cont) |-> IF k <= n THEN AccuAccumulate(cont[k], x) ELSE cont[k]]

\* The index of the first accumulator whose observable raises at x (0: none).
ContFirstRaising(cont, x) ==
    IF \E k \in 1..Len(cont) : cont[k].stepidx % cont[k].nskip = 0
                               /\ observableRaises(cont[k].obs, x)
    THEN CHOOSE k \in 1..Len(cont) :
            /\ cont[k].stepidx % cont[k].nskip = 0 /\ observableRaises(cont[k].obs, x)
            /\ \A j \in 1..(k - 1) : ~(cont[j].stepidx % cont[j].nskip = 0
                                       /\ observableRaises(cont[j].obs, x))
    ELSE 0

ContFinalizeRaises(cont) == \E k \in 1..Len(cont) : AccuFinalizeRaises(cont[k])

ContFinalize(cont) == [k \in 1..Len(cont) |-> AccuFinalize(cont[k])]

ContEstimateRaises_Unallocated(cont) == \E k \in 1..Len(cont) : ~isAllocated(cont[k])

\* The estimator of an observable raises when its accumulator is not finalized.
ContEstimateRaises(cont) == \E k \in 1..Len(cont) : ~isFinalized(cont[k])

\* The j-th value of every stored row.
Column(a, j) ==
    [k \in 1..getNStore(a) |-> a.data[(k - 1) * getNObs(a) + j]]

\* The estimator of one observable: one [avg, err2] per value of the observable.
AccuEstimate(a) == [j \in 1..getNObs(a) |-> Estimator(a.est, Column(a, j))]

\* estimate(average, error): the estimates of the observables one after the
\* other (offset += getNObs()).
RECURSIVE ContEstimateFrom(_, _)
ContEstimateFrom(cont, k) ==
    IF k > Len(cont) THEN <<>>
    ELSE AccuEstimate(cont[k]) \o ContEstimateFrom(cont, k + 1)

ContEstimate(cont) == ContEstimateFrom(cont, 1)

\* ------------------------------------------------------------------ state

VARIABLES
    domain,                 \* _domain
    pdfcont,                \* _pdfcont, the sequence of sampling functions
    trialMove,              \* _trialMove
    obscont,                \* _obscont, the sequence of accumulators
    wlkstate,               \* _wlkstate
    acc, rej, ridx,         \* _acc, _rej, _ridx
    targetaccrate,          \* _targetaccrate
    NfindMRT2Iterations,    \* _NfindMRT2Iterations
    NdecorrelationSteps,    \* _NdecorrelationSteps
    cback,                  \* _cback: is an acceptance callback set
    average, error,         \* the caller's buffers (error holds err^2)
    pc,                     \* where the running integrate() call stands
    args,                   \* the arguments of the running integrate() call
    find,                   \* locals of findMRT2Step: cons_count, counter
    dec,                    \* locals of initialDecorrelation
    smp,                    \* locals of sample(): npoints, container, caller,
                            \* and what the callback was called with in the run
    outcome,                \* how the last integrate() call ended
    trace,                  \* the phases the running call has entered, in order
    pre,                    \* the engine state when the call was made
    estimated,              \* what the estimators returned in the call
    ncalls,                 \* integrate() calls made so far
    obsfile,                \* _flagobsfile, _freqobsfile, _obsfile and the file at
                            \* _pathobsfile
    wlkfile                 \* _flagwlkfile, _freqwlkfile, _wlkfile and the file at
                            \* _pathwlkfile

vars == <<domain, pdfcont, trialMove, obscont, wlkstate, acc, rej, ridx,
          targetaccrate, NfindMRT2Iterations, NdecorrelationSteps, cback, average,
          error, pc, args, find, dec, smp, outcome, trace, pre, estimated, ncalls,
          obsfile, wlkfile>>

\* What the setters leave alone during a call.
config == <<domain, targetaccrate, NfindMRT2Iterations, NdecorrelationSteps, cback>>

\* The two text sinks.
sinks == <<obsfile, wlkfile>>

\* A sink that was never asked for: the flag as the constructor sets it, the
\* stream closed, the file without a line.
NoFile == [flag |-> FALSE, freq |-> 1, isopen |-> FALSE, failed |-> FALSE, lines |-> <<>>]

\* _obsfile.open(path), _wlkfile.open(path): an output stream opened without a
\* mode truncates the file; open() on a stream that is still open fails and
\* sets the failbit, and the file is left alone.
FileOpen(f) ==
    IF ~f.flag THEN f
    ELSE IF f.isopen THEN [f EXCEPT !.failed = TRUE]
    ELSE [f EXCEPT !.isopen = TRUE, !.failed = FALSE, !.lines = <<>>]

\* _obsfile.close(), _wlkfile.close()
FileClose(f) ==
    IF ~f.flag THEN f
    ELSE IF f.isopen THEN [f EXCEPT !.isopen = FALSE]
    ELSE [f EXCEPT !.failed = TRUE]

\* The lines written in every run of sample() with a container.
FileStore_AnyRun(f, flagMC, r, rest) ==
    IF f.flag /\ r % f.freq = 0 /\ f.isopen /\ ~f.failed
    THEN [f EXCEPT !.lines = Append(@, <<r>> \o rest)]
    ELSE f

\* MCI::storeObservables, MCI::storeWalkerPositions: every freq-th step writes
\* one line, begun by _ridx; a stream that is not open or has failed writes
\* nothing.
FileStore(f, flagMC, r, rest) ==
    IF flagMC /\ f.flag /\ r % f.freq = 0 /\ f.isopen /\ ~f.failed
    THEN [f EXCEPT !.lines = Append(@, <<r>> \o rest)]
    ELSE f

\* A value the caller's buffers hold before the call.
Sentinel == <<-7, 1>>

NoArgs == [Nmc |-> 0, doFindMRT2step |-> FALSE, doDecorrelation |-> FALSE]

NoFind == [cons_count |-> 0, counter |-> 0]

\* No temporary container exists.
NoDec == [exists |-> FALSE, obs_equil |-> <<>>, oldestimate |-> <<>>, countNMC |-> 0]

\* The callback was not called.
NoSeen == [at |-> "never"]

NoSmp == [npoints |-> 0, cont |-> "none", ret |-> "idle", ncb |-> 0, seen |-> NoSeen,
          flag_callbackPDF |-> FALSE, lastprep |-> -1, lastacc |-> -1]

\* The engine state integrate() may change.
Engine == [wlkstate |-> wlkstate, acc |-> acc, rej |-> rej, ridx |-> ridx,
           step |-> trialMove.step, trialMove |-> trialMove, pdfcont |-> pdfcont,
           obscont |-> obscont, average |-> average, error |-> error]

\* ------------------------------------------------------------ the MC steps

\* doStepMRT2 with the walker's rollback left out of the rejected branch.
doStepMRT2_NoWalkerRollback(dom, st, prop, u) ==
    LET nchanged == Cardinality(prop.changedIdx)
        tm1 == [st.trialMove EXCEPT !.protonew = protoFunctionMove(prop.xnew)]
        xnew == IF nchanged < NDIM
                THEN applyDomainSelective(dom, prop.xnew, prop.changedIdx)
                ELSE applyDomain(dom, prop.xnew)
        w1 == [st.wlkstate EXCEPT !.xnew = xnew, !.nchanged = nchanged,
                                  !.changedIdx = prop.changedIdx]
        pdf1 == PdfContPropose(st.pdfcont, xnew)
        accepted == RLe(u, RMul(PdfContAcceptance(pdf1), ROne))
        w2 == [w1 EXCEPT !.accepted = accepted]
        a1 == IF accepted THEN st.acc + 1 ELSE st.acc
        r1 == IF accepted THEN st.rej ELSE st.rej + 1
        seen == [at |-> "step", wlkstate |-> w2, pdfcont |-> pdf1, trialMove |-> tm1,
                 acc |-> a1, rej |-> r1]
    IN  IF accepted
        THEN [wlkstate |-> WalkerNewToOld(w2), pdfcont |-> PdfContNewToOld(pdf1),
              trialMove |-> MoveNewToOld(tm1), acc |-> a1, rej |-> r1, seen |-> seen]
        ELSE [wlkstate |-> w2, pdfcont |-> PdfContOldToNew(pdf1),
              trialMove |-> MoveOldToNew(tm1), acc |-> a1, rej |-> r1, seen |-> seen]

\* doStepMRT2 with the callback moved below the commit or rollback.
doStepMRT2_CallbackLast(dom, st, prop, u) ==
    LET nchanged == Cardinality(prop.changedIdx)
        tm1 == [st.trialMove EXCEPT !.protonew = protoFunctionMove(prop.xnew)]
        xnew == IF nchanged < NDIM
                THEN applyDomainSelective(dom, prop.xnew, prop.changedIdx)
                ELSE applyDomain(dom, prop.xnew)
        w1 == [st.wlkstate EXCEPT !.xnew = xnew, !.nchanged = nchanged,
                                  !.changedIdx = prop.changedIdx]
        pdf1 == PdfContPropose(st.pdfcont, xnew)
        accepted == RLe(u, RMul(PdfContAcceptance(pdf1), ROne))
        w2 == [w1 EXCEPT !.accepted = accepted]
        a1 == IF accepted THEN st.acc + 1 ELSE st.acc
        r1 == IF accepted THEN st.rej ELSE st.rej + 1
        w3 == IF accepted THEN WalkerNewToOld(w2) ELSE WalkerOldToNew(w2)
        pdf3 == IF accepted THEN PdfContNewToOld(pdf1) ELSE PdfContOldToNew(pdf1)
        tm3 == IF accepted THEN MoveNewToOld(tm1) ELSE MoveOldToNew(tm1)
    IN  [wlkstate |-> w3, pdfcont |-> pdf3, trialMove |-> tm3, acc |-> a1, rej |-> r1,
         seen |-> [at |-> "step", wlkstate |-> w3, pdfcont |-> pdf3, trialMove |-> tm3,
                   acc |-> a1, rej |-> r1]]

\* doStepMRT2 with newToOld() called in the rejected branch as well.
doStepMRT2_CommitOnReject(dom, st, prop, u) ==
    LET nchanged == Cardinality(prop.changedIdx)
        tm1 == [st.trialMove EXCEPT !.protonew = protoFunctionMove(prop.xnew)]
        moveAcc == ROne
        xnew == IF nchanged < NDIM
                THEN applyDomainSelective(dom, prop.xnew, prop.changedIdx)
                ELSE applyDomain(dom, prop.xnew)
        w1 == [st.wlkstate EXCEPT !.xnew = xnew, !.nchanged = nchanged,
                                  !.changedIdx = prop.changedIdx]
        pdf1 == PdfContPropose(st.pdfcont, xnew)
        pdfAcc == PdfContAcceptance(pdf1)
        accepted == RLe(u, RMul(pdfAcc, moveAcc))
        w2 == [w1 EXCEPT !.accepted = accepted]
        a1 == IF accepted THEN st.acc + 1 ELSE st.acc
        r1 == IF accepted THEN st.rej ELSE st.rej + 1
        seen == [at |-> "step", wlkstate |-> w2, pdfcont |-> pdf1, trialMove |-> tm1,
                 acc |-> a1, rej |-> r1]
    IN  IF accepted
        THEN [wlkstate |-> WalkerNewToOld(w2), pdfcont |-> PdfContNewToOld(pdf1),
              trialMove |-> MoveNewToOld(tm1), acc |-> a1, rej |-> r1, seen |-> seen]
        ELSE [wlkstate |-> WalkerNewToOld(w2), pdfcont |-> PdfContNewToOld(pdf1),
              trialMove |-> MoveNewToOld(tm1), acc |-> a1, rej |-> r1, seen |-> seen]

\* MCI::doStepMRT2 on st = [wlkstate, pdfcont, trialMove, acc, rej], with the
\* proposal prop the trial move makes and the draw u.
doStepMRT2(dom, st, prop, u) ==
    LET nchanged == Cardinality(prop.changedIdx)
        tm1 == [st.trialMove EXCEPT !.protonew = protoFunctionMove(prop.xnew)]
        moveAcc == ROne
        xnew == IF nchanged < NDIM
                THEN applyDomainSelective(dom, prop.xnew, prop.changedIdx)
                ELSE applyDomain(dom, prop.xnew)
        w1 == [st.wlkstate EXCEPT !.xnew = xnew, !.nchanged = nchanged,
                                  !.changedIdx = prop.changedIdx]
        pdf1 == PdfContPropose(st.pdfcont, xnew)
        pdfAcc == PdfContAcceptance(pdf1)
        accepted == RLe(u, RMul(pdfAcc, moveAcc))
        w2 == [w1 EXCEPT !.accepted = accepted]
        a1 == IF accepted THEN st.acc + 1 ELSE st.acc
        r1 == IF accepted THEN st.rej ELSE st.rej + 1
        seen == [at |-> "step", wlkstate |-> w2, pdfcont |-> pdf1, trialMove |-> tm1,
                 acc |-> a1, rej |-> r1]
    IN  IF accepted
        THEN [wlkstate |-> WalkerNewToOld(w2), pdfcont |-> PdfContNewToOld(pdf1),
              trialMove |-> MoveNewToOld(tm1), acc |-> a1, rej |-> r1, seen |-> seen]
        ELSE [wlkstate |-> WalkerOldToNew(w2), pdfcont |-> PdfContOldToNew(pdf1),
              trialMove |-> MoveOldToNew(tm1), acc |-> a1, rej |-> r1, seen |-> seen]

\* doStepRandom without ++_acc.
doStepRandom_NoCount(st, x) ==
    LET w1 == [st.wlkstate EXCEPT !.xnew = x, !.nchanged = NDIM, !.changedIdx = Dims,
                                  !.accepted = TRUE]
        seen == [at |-> "step", wlkstate |-> w1, pdfcont |-> st.pdfcont,
                 trialMove |-> st.trialMove, acc |-> st.acc, rej |-> st.rej]
    IN  [wlkstate |-> WalkerNewToOld(w1), pdfcont |-> st.pdfcont,
         trialMove |-> st.trialMove, acc |-> st.acc, rej |-> st.rej, seen |-> seen]

\* MCI::doStepRandom, with x the draw scaled to the domain.
doStepRandom(st, x) ==
    LET w1 == [st.wlkstate EXCEPT !.xnew = x, !.nchanged = NDIM, !.changedIdx = Dims,
                                  !.accepted = TRUE]
        seen == [at |-> "step", wlkstate |-> w1, pdfcont |-> st.pdfcont,
                 trialMove |-> st.trialMove, acc |-> st.acc + 1, rej |-> st.rej]
    IN  [wlkstate |-> WalkerNewToOld(w1), pdfcont |-> st.pdfcont,
         trialMove |-> st.trialMove, acc |-> st.acc + 1, rej |-> st.rej, seen |-> seen]

\* The results one MC step can have from the current state.
StepResults ==
    LET st == [wlkstate |-> wlkstate, pdfcont |-> pdfcont, trialMove |-> trialMove,
               acc |-> acc, rej |-> rej]
    IN  IF hasPDF(pdfcont)
        THEN {doStepMRT2(domain, st, prop, u) :
                  prop \in {q \in MoveProposals(trialMove, wlkstate.xold) :
                                applyDomain(domain, q.xnew) \in Positions(domain)},
                  u \in UDraws}
        ELSE {doStepRandom(st, x) : x \in Positions(domain)}

\* MCI::getAcceptanceRate
getAcceptanceRate(a, r) == IF a > 0 THEN Rat(a, a + r) ELSE RZero

\* --------------------------------------------------------------- sampling

\* ObservableContainer::getNSkipPDF: the largest divisor of the nskip of all
\* observables that depend on the PDF, 0 without such an observable.
getNSkipPDF(cont) ==
    LET S == {cont[k].nskip : k \in {j \in 1..Len(cont) : ObsDependsOnPDF(cont[j].obs)}}
    IN  IF S = {} THEN 0
        ELSE CHOOSE d \in 1..100 :
                /\ \A n \in S : n % d = 0
                /\ \A e \in 1..100 : (\A n \in S : n % e = 0) => e <= d

\* ObservableContainer::dependsOnPDF
dependsOnPDF(cont) == getNSkipPDF(cont) # 0

\* The PDF callback without the note of an accepted step that was not observed.
PDFCallback_Forget(flag, accepted, r, nskipPDF) ==
    LET flag_PDFObs == IF nskipPDF # 0 THEN r % nskipPDF = 0 ELSE FALSE
        now == (flag \/ accepted) /\ flag_PDFObs
    IN  [now |-> now, flag |-> IF now THEN FALSE ELSE flag]

\* The PDF callback of step r in sample(npoints, container, flagMC): is
\* prepareObservation called now, and flag_callbackPDF after the step.
PDFCallback(flag, accepted, r, nskipPDF) ==
    LET flag_PDFObs == IF nskipPDF # 0 THEN r % nskipPDF = 0 ELSE FALSE
        now == (flag \/ accepted) /\ flag_PDFObs
    IN  [now |-> now, flag |-> IF now THEN FALSE ELSE IF accepted THEN TRUE ELSE flag]

\* initializeSampling without the reset of the running counters.
SampleStart_KeepCounters(npoints, cont, ret, before) ==
    /\ UNCHANGED <<acc, rej>>
    /\ ridx' = 0
    /\ wlkstate' = WalkerInitialize(wlkstate)
    /\ pdfcont' = PdfContInitialize(pdfcont, wlkstate.xold)
    /\ trialMove' = MoveComputeOld(trialMove, wlkstate.xold)
    /\ smp' = [npoints |-> npoints, cont |-> cont, ret |-> ret,
               ncb |-> IF cback THEN 1 ELSE 0,
               seen |-> IF cback
                        THEN [at |-> "init", wlkstate |-> wlkstate', pdfcont |-> pdfcont',
                              trialMove |-> trialMove', acc |-> acc, rej |-> rej,
                              ridx |-> 0, container |-> before]
                        ELSE NoSeen,
               flag_callbackPDF |-> dependsOnPDF(before),
               lastprep |-> -1, lastacc |-> -1]
    /\ pc' = "smp_body"

\* MCI::initializeSampling and the entry into the loop of sample().  `before`
\* is the container as it is passed to sample(); the caller resets it, which
\* initializeSampling does after the callback.  The callback, when one is set,
\* is called with the engine as it stands then.
SampleStart(npoints, cont, ret, before) ==
    /\ acc' = 0
    /\ rej' = 0
    /\ ridx' = 0
    /\ wlkstate' = WalkerInitialize(wlkstate)
    /\ pdfcont' = PdfContInitialize(pdfcont, wlkstate.xold)
    /\ trialMove' = MoveComputeOld(trialMove, wlkstate.xold)
    /\ smp' = [npoints |-> npoints, cont |-> cont, ret |-> ret,
               ncb |-> IF cback THEN 1 ELSE 0,
               seen |-> IF cback
                        THEN [at |-> "init", wlkstate |-> wlkstate', pdfcont |-> pdfcont',
                              trialMove |-> trialMove', acc |-> 0, rej |-> 0,
                              ridx |-> 0, container |-> before]
                        ELSE NoSeen,
               flag_callbackPDF |-> dependsOnPDF(before),
               lastprep |-> -1, lastacc |-> -1]
    /\ pc' = "smp_body"

\* An exception leaves integrate(): its locals are destroyed, nothing else is
\* undone.
Raise ==
    /\ pc' = "idle"
    /\ outcome' = "error"
    /\ dec' = NoDec
    /\ find' = NoFind
    /\ smp' = NoSmp

\* The container sample() accumulates into.
Container == IF smp.cont = "main" THEN obscont
             ELSE IF smp.cont = "equil" THEN dec.obs_equil ELSE <<>>

\* One pass of the loop body of sample(): the MC step, then the accumulation
\* of the observables, which an observable function may leave by an exception,
\* then the lines for the sinks (the observable values of a line, printed by
\* code outside these sources, are not kept).
SampleStep ==
    /\ pc = "smp_body"
    /\ \E r \in StepResults :
        LET x == r.wlkstate.xnew
            k == ContFirstRaising(Container, x)
            n == IF k = 0 THEN Len(Container) ELSE k - 1
            c == ContAccumulate(Container, x, n)
        IN  /\ wlkstate' = r.wlkstate
            /\ pdfcont' = r.pdfcont
            /\ trialMove' = r.trialMove
            /\ acc' = r.acc
            /\ rej' = r.rej
            /\ obscont' = IF smp.cont = "main" THEN c ELSE obscont
            /\ IF k = 0
               THEN /\ pc' = "smp_inc"
                    /\ dec' = IF smp.cont = "equil" THEN [dec EXCEPT !.obs_equil = c]
                              ELSE dec
                    /\ smp' = LET s1 == IF cback
                                         THEN [smp EXCEPT
                                                 !.ncb = @ + 1,
                                                 !.seen = [at |-> r.seen.at,
                                                           wlkstate |-> r.seen.wlkstate,
                                                           pdfcont |-> r.seen.pdfcont,
                                                           trialMove |-> r.seen.trialMove,
                                                           acc |-> r.seen.acc,
                                                           rej |-> r.seen.rej,
                                                           ridx |-> ridx,
                                                           container |-> Container]]
                                         ELSE smp
                                   cb == PDFCallback(smp.flag_callbackPDF,
                                                     r.wlkstate.accepted, ridx,
                                                     getNSkipPDF(Container))
                                   s2 == IF r.wlkstate.accepted
                                         THEN [s1 EXCEPT !.lastacc = ridx] ELSE s1
                               IN  IF smp.cont = "none" \/ ~hasPDF(pdfcont) THEN s2
                                   ELSE [s2 EXCEPT
                                           !.flag_callbackPDF = cb.flag,
                                           !.lastprep = IF cb.now THEN ridx ELSE @]
                    /\ obsfile' = FileStore(obsfile, smp.cont = "main", ridx, <<>>)
                    /\ wlkfile' = FileStore(wlkfile, smp.cont = "main", ridx,
                                            r.wlkstate.xold)
                    /\ UNCHANGED <<find, outcome>>
               ELSE Raise /\ UNCHANGED sinks
    /\ UNCHANGED <<config, ridx, average, error, args, trace, pre, estimated, ncalls>>

\* The loop of sample() left one step early.
SampleInc_OneShort ==
    /\ pc = "smp_inc"
    /\ ridx' = ridx + 1
    /\ IF ridx + 1 < smp.npoints - 1
       THEN /\ pc' = "smp_body"
            /\ UNCHANGED <<obscont, dec, find, smp, outcome, trace>>
       ELSE IF ContFinalizeRaises(Container)
       THEN /\ Raise
            /\ UNCHANGED <<obscont, trace>>
       ELSE /\ pc' = smp.ret
            /\ obscont' = IF smp.cont = "main" THEN ContFinalize(obscont) ELSE obscont
            /\ dec' = IF smp.cont = "equil"
                      THEN [dec EXCEPT !.obs_equil = ContFinalize(dec.obs_equil)]
                      ELSE dec
            /\ trace' = IF smp.cont = "main" THEN Append(trace, "finalize") ELSE trace
            /\ smp' = NoSmp
            /\ UNCHANGED <<find, outcome>>
    /\ UNCHANGED <<config, sinks, pdfcont, trialMove, wlkstate, acc, rej, average, error,
                   args, pre, estimated, ncalls>>

\* ++_ridx and the loop test of sample(); when the loop ends, the container is
\* finalized and sample() returns, its locals gone.
SampleInc ==
    /\ pc = "smp_inc"
    /\ ridx' = ridx + 1
    /\ IF ridx + 1 < smp.npoints
       THEN /\ pc' = "smp_body"
            /\ UNCHANGED <<obscont, dec, find, smp, outcome, trace>>
       ELSE IF ContFinalizeRaises(Container)
       THEN /\ Raise
            /\ UNCHANGED <<obscont, trace>>
       ELSE /\ pc' = smp.ret
            /\ obscont' = IF smp.cont = "main" THEN ContFinalize(obscont) ELSE obscont
            /\ dec' = IF smp.cont = "equil"
                      THEN [dec EXCEPT !.obs_equil = ContFinalize(dec.obs_equil)]
                      ELSE dec
            /\ trace' = IF smp.cont = "main" THEN Append(trace, "finalize") ELSE trace
            /\ smp' = NoSmp
            /\ UNCHANGED <<find, outcome>>
    /\ UNCHANGED <<config, sinks, pdfcont, trialMove, wlkstate, acc, rej, average, error,
                   args, pre, estimated, ncalls>>

\* ----------------------------------------------------------- findMRT2Step

\* fact = std::min(2., std::max(0.5, rate/_targetaccrate)), as doubles: x/0 is
\* +inf for x > 0 and NaN for x = 0, and std::max(0.5, NaN) is 0.5.
ScaleFactor(rate, target) ==
    IF target[1] = 0
    THEN (IF RLt(RZero, rate) THEN RInt(2) ELSE <<1, 2>>)
    ELSE RMin(RInt(2), RMax(<<1, 2>>, RDiv(rate, target)))

\* The cap set at the full size of the dimension.
RECURSIVE CapSteps_FullSize(_, _, _)
CapSteps_FullSize(tm, dom, i) ==
    IF i > NDIM THEN tm
    ELSE LET full == RInt(dom.size[i])
             j == tm.idx[i]
         IN  IF dom.finite /\ RLt(full, tm.step[j])
             THEN CapSteps_FullSize(setStepSize(tm, j, full), dom, i + 1)
             ELSE CapSteps_FullSize(tm, dom, i + 1)

\* "keep large step sizes in check": dimensions i..NDIM, in order.
RECURSIVE CapSteps(_, _, _)
CapSteps(tm, dom, i) ==
    IF i > NDIM THEN tm
    ELSE LET half == Rat(dom.size[i], 2)
             j == tm.idx[i]
         IN  IF dom.finite /\ RLt(half, tm.step[j])
             THEN CapSteps(setStepSize(tm, j, half), dom, i + 1)
             ELSE CapSteps(tm, dom, i + 1)

\* "keep small step sizes in check"
FloorSteps(tm) ==
    [tm EXCEPT !.step = [j \in 1..tm.nss |->
        IF RLt(tm.step[j], RInt(SMALLEST_ACCEPTABLE_DOUBLE))
        THEN RInt(SMALLEST_ACCEPTABLE_DOUBLE) ELSE tm.step[j]]]

\* The iteration scaling the first step size only.
TuneStepSizes_ScaleFirst(tm, dom, rate, target) ==
    FloorSteps(CapSteps(setStepSize(tm, 1, RMul(tm.step[1], ScaleFactor(rate, target))),
                        dom, 1))

\* The step sizes after one iteration that measured the acceptance rate `rate`.
TuneStepSizes(tm, dom, rate, target) ==
    FloorSteps(CapSteps(scaleStepSizes(tm, ScaleFactor(rate, target)), dom, 1))

\* if (fabs(rate - _targetaccrate) < TOLERANCE) ++cons_count; else cons_count = 0;
NextConsCount(c, rate, target) ==
    IF RLt(RAbs(RSub(rate, target)), TOLERANCE) THEN c + 1 ELSE 0

\* The condition of the while loop of findMRT2Step.
FindContinues(f, n) == (n < 0 /\ f.cons_count < MIN_CONS) \/ f.counter < n

\* The break taken one iteration late.
FindBreaks_OneLate(counter, n) == n < 0 /\ counter > Abs(n)

\* The break at the end of the loop body.
FindBreaks(counter, n) == n < 0 /\ counter >= Abs(n)

\* The call of findMRT2Step: nothing to do without adjustable step sizes.
FindEntry ==
    /\ pc = "find_entry"
    /\ find' = NoFind
    /\ pc' = IF hasStepSizes(trialMove) THEN "find_head" ELSE "int_decorr"
    /\ UNCHANGED <<config, sinks, pdfcont, trialMove, obscont, wlkstate, acc, rej, ridx,
                   average, error, args, dec, smp, outcome, trace, pre, estimated,
                   ncalls>>

\* The loop test; a further iteration starts with sample(MIN_STAT).
FindLoopHead ==
    /\ pc = "find_head"
    /\ IF FindContinues(find, NfindMRT2Iterations)
       THEN SampleStart(MIN_STAT, "none", "find_post", <<>>)
       ELSE /\ pc' = "int_decorr"
            /\ UNCHANGED <<pdfcont, trialMove, wlkstate, acc, rej, ridx, smp>>
    /\ UNCHANGED <<config, sinks, obscont, average, error, args, find, dec, outcome, trace,
                   pre, estimated, ncalls>>

\* The rest of the loop body, after the batch was sampled.
FindAfterSample ==
    /\ pc = "find_post"
    /\ LET rate == getAcceptanceRate(acc, rej)
           counter == find.counter + 1
       IN  /\ trialMove' = TuneStepSizes(trialMove, domain, rate, targetaccrate)
           /\ find' = [cons_count |-> NextConsCount(find.cons_count, rate, targetaccrate),
                       counter |-> counter]
           /\ pc' = IF FindBreaks(counter, NfindMRT2Iterations) THEN "int_decorr"
                    ELSE "find_head"
    /\ UNCHANGED <<config, sinks, pdfcont, obscont, wlkstate, acc, rej, ridx, average, error,
                   args, dec, smp, outcome, trace, pre, estimated, ncalls>>

\* --------------------------------------------------- initialDecorrelation

\* The temporary container: a clone of every observable flagged for
\* equilibration, with nskip 1 and the correlated estimator.
EquilContainer(cont) ==
    LET F == {k \in 1..Len(cont) : cont[k].equil}
        RECURSIVE Pick(_, _)
        Pick(k, out) ==
            IF k > Len(cont) THEN out
            ELSE Pick(k + 1, IF k \in F
                             THEN Append(out, AccuNew(cont[k].obs, "Correlated", 1, TRUE))
                             ELSE out)
    IN  Pick(1, <<>>)

\* fabs(old - new) > 2*sqrt(olderr^2 + newerr^2) for some component, compared
\* by the squares of its two sides.
SignificantDifference(old, new) ==
    \E i \in 1..Len(old) :
        LET d == RSub(old[i].avg, new[i].avg)
        IN  RLt(RMul(RInt(4), RAdd(old[i].err2, new[i].err2)), RMul(d, d))

\* initialDecorrelation with one step more in the fixed burn-in.
DecorrEntry_OneMore ==
    /\ pc = "dec_entry"
    /\ IF NdecorrelationSteps < 0
       THEN /\ dec' = [exists |-> TRUE,
                       obs_equil |-> ContReset(ContAllocate(EquilContainer(obscont), MIN_NMC)),
                       oldestimate |-> <<>>, countNMC |-> 0]
            /\ SampleStart(MIN_NMC, "equil", "dec_first",
                           ContAllocate(EquilContainer(obscont), MIN_NMC))
       ELSE /\ SampleStart(NdecorrelationSteps + 1, "none", "int_main", <<>>)
            /\ UNCHANGED dec
    /\ UNCHANGED <<config, sinks, obscont, average, error, args, find, outcome, trace, pre,
                   estimated, ncalls>>

\* The call of initialDecorrelation, up to its first sample().
DecorrEntry ==
    /\ pc = "dec_entry"
    /\ IF NdecorrelationSteps < 0
       THEN /\ dec' = [exists |-> TRUE,
                       obs_equil |-> ContReset(ContAllocate(EquilContainer(obscont), MIN_NMC)),
                       oldestimate |-> <<>>, countNMC |-> 0]
            /\ SampleStart(MIN_NMC, "equil", "dec_first",
                           ContAllocate(EquilContainer(obscont), MIN_NMC))
       ELSE IF NdecorrelationSteps > 0
       THEN /\ SampleStart(NdecorrelationSteps, "none", "int_main", <<>>)
            /\ UNCHANGED dec
       ELSE /\ pc' = "int_main"
            /\ UNCHANGED <<pdfcont, trialMove, wlkstate, acc, rej, ridx, smp, dec>>
    /\ UNCHANGED <<config, sinks, obscont, average, error, args, find, outcome, trace, pre,
                   estimated, ncalls>>

\* The first estimate, and the first pass of the loop up to its sample().
DecorrFirst ==
    /\ pc = "dec_first"
    /\ IF ContEstimateRaises(dec.obs_equil)
       THEN /\ Raise
            /\ UNCHANGED <<pdfcont, trialMove, wlkstate, acc, rej, ridx>>
       ELSE /\ dec' = [dec EXCEPT !.oldestimate = ContEstimate(dec.obs_equil),
                                  !.obs_equil = ContReset(dec.obs_equil)]
            /\ SampleStart(MIN_NMC, "equil", "dec_loop", dec.obs_equil)
            /\ UNCHANGED <<find, outcome>>
    /\ UNCHANGED <<config, sinks, obscont, average, error, args, trace, pre, estimated,
                   ncalls>>

\* The loop without the copy of the new estimate to the old one.
DecorrLoop_KeepOld ==
    /\ pc = "dec_loop"
    /\ LET count == dec.countNMC + MIN_NMC
           new == ContEstimate(dec.obs_equil)
       IN  IF count >= Abs(NdecorrelationSteps)
           THEN /\ pc' = "int_main"
                /\ dec' = NoDec
                /\ UNCHANGED <<pdfcont, trialMove, wlkstate, acc, rej, ridx, smp, find,
                               outcome>>
           ELSE IF ContEstimateRaises(dec.obs_equil)
           THEN /\ Raise
                /\ UNCHANGED <<pdfcont, trialMove, wlkstate, acc, rej, ridx>>
           ELSE IF SignificantDifference(dec.oldestimate, new)
           THEN /\ dec' = [dec EXCEPT !.countNMC = count,
                                      !.obs_equil = ContReset(dec.obs_equil)]
                /\ SampleStart(MIN_NMC, "equil", "dec_loop", dec.obs_equil)
                /\ UNCHANGED <<find, outcome>>
           ELSE /\ pc' = "int_main"
                /\ dec' = NoDec
                /\ UNCHANGED <<pdfcont, trialMove, wlkstate, acc, rej, ridx, smp, find,
                               outcome>>
    /\ UNCHANGED <<config, sinks, obscont, average, error, args, trace, pre, estimated,
                   ncalls>>

\* The rest of a pass of the loop: the step cap, the new estimate and the test
\* for another pass; on return the temporary container is destroyed.
DecorrLoop ==
    /\ pc = "dec_loop"
    /\ LET count == dec.countNMC + MIN_NMC
           new == ContEstimate(dec.obs_equil)
       IN  IF count >= Abs(NdecorrelationSteps)
           THEN /\ pc' = "int_main"
                /\ dec' = NoDec
                /\ UNCHANGED <<pdfcont, trialMove, wlkstate, acc, rej, ridx, smp, find,
                               outcome>>
           ELSE IF ContEstimateRaises(dec.obs_equil)
           THEN /\ Raise
                /\ UNCHANGED <<pdfcont, trialMove, wlkstate, acc, rej, ridx>>
           ELSE IF SignificantDifference(dec.oldestimate, new)
           THEN /\ dec' = [dec EXCEPT !.oldestimate = new, !.countNMC = count,
                                      !.obs_equil = ContReset(dec.obs_equil)]
                /\ SampleStart(MIN_NMC, "equil", "dec_loop", dec.obs_equil)
                /\ UNCHANGED <<find, outcome>>
           ELSE /\ pc' = "int_main"
                /\ dec' = NoDec
                /\ UNCHANGED <<pdfcont, trialMove, wlkstate, acc, rej, ridx, smp, find,
                               outcome>>
    /\ UNCHANGED <<config, sinks, obscont, average, error, args, trace, pre, estimated,
                   ncalls>>

\* -------------------------------------------------------------- integrate

\* integrate() with the domain check placed below the allocation.
IntegrateCall_CheckAfterAllocate(Nmc, doFind, doDecorr) ==
    /\ pc = "idle"
    /\ ncalls < MaxCalls
    /\ ncalls' = ncalls + 1
    /\ args' = [Nmc |-> Nmc, doFindMRT2step |-> doFind, doDecorrelation |-> doDecorr]
    /\ average' = [k \in 1..Len(obscont) |-> Sentinel]
    /\ error' = [k \in 1..Len(obscont) |-> Sentinel]
    /\ pre' = [Engine EXCEPT !.average = average', !.error = error']
    /\ trace' = <<>>
    /\ estimated' = <<>>
    /\ IF ~hasPDF(pdfcont) /\ ~domain.finite
       THEN /\ outcome' = "domain_error"
            /\ pc' = "idle"
            /\ obscont' = IF Nmc > 0 THEN ContAllocate(obscont, Nmc) ELSE obscont
       ELSE /\ outcome' = "running"
            /\ pc' = "int_tune"
            /\ UNCHANGED obscont
    /\ UNCHANGED <<config, sinks, pdfcont, trialMove, wlkstate, acc, rej, ridx, find, dec,
                   smp>>

\* integrate(Nmc, average, error, doFindMRT2step, doDecorrelation) is entered:
\* the domain check, which raises std::domain_error before anything else.
IntegrateEnter(Nmc, doFind, doDecorr) ==
    /\ pc = "idle"
    /\ ncalls' = ncalls + 1
    /\ args' = [Nmc |-> Nmc, doFindMRT2step |-> doFind, doDecorrelation |-> doDecorr]
    /\ average' = [k \in 1..Len(obscont) |-> Sentinel]
    /\ error' = [k \in 1..Len(obscont) |-> Sentinel]
    /\ pre' = [Engine EXCEPT !.average = average', !.error = error']
    /\ trace' = <<>>
    /\ estimated' = <<>>
    /\ IF ~hasPDF(pdfcont) /\ ~domain.finite
       THEN /\ outcome' = "domain_error"
            /\ pc' = "idle"
       ELSE /\ outcome' = "running"
            /\ pc' = "int_tune"
    /\ UNCHANGED <<config, sinks, pdfcont, trialMove, obscont, wlkstate, acc, rej, ridx,
                   find, dec, smp>>

\* A call of integrate(), one of the MaxCalls calls followed.
IntegrateCall(Nmc, doFind, doDecorr) ==
    /\ ncalls < MaxCalls
    /\ IntegrateEnter(Nmc, doFind, doDecorr)

\* if (_pdfcont.hasPDF()) { if (doFindMRT2step) { this->findMRT2Step(); } ...
IntegrateTune ==
    /\ pc = "int_tune"
    /\ IF hasPDF(pdfcont) /\ args.doFindMRT2step
       THEN /\ pc' = "find_entry"
            /\ trace' = Append(trace, "tune")
       ELSE /\ pc' = "int_decorr"
            /\ UNCHANGED trace
    /\ UNCHANGED <<config, sinks, pdfcont, trialMove, obscont, wlkstate, acc, rej, ridx,
                   average, error, args, find, dec, smp, outcome, pre, estimated, ncalls>>

\* The second call of integrate() made findMRT2Step again.
IntegrateDecorr_TuneAgain ==
    /\ pc = "int_decorr"
    /\ IF hasPDF(pdfcont) /\ args.doDecorrelation
       THEN /\ pc' = "find_entry"
            /\ trace' = Append(trace, "tune")
       ELSE /\ pc' = "int_main"
            /\ UNCHANGED trace
    /\ UNCHANGED <<config, sinks, pdfcont, trialMove, obscont, wlkstate, acc, rej, ridx,
                   average, error, args, find, dec, smp, outcome, pre, estimated, ncalls>>

\* The burn-in moved out of the if (_pdfcont.hasPDF()) block.
IntegrateDecorr_WithoutPDF ==
    /\ pc = "int_decorr"
    /\ IF args.doDecorrelation
       THEN /\ pc' = "dec_entry"
            /\ trace' = Append(trace, "burnin")
       ELSE /\ pc' = "int_main"
            /\ UNCHANGED trace
    /\ UNCHANGED <<config, sinks, pdfcont, trialMove, obscont, wlkstate, acc, rej, ridx,
                   average, error, args, find, dec, smp, outcome, pre, estimated, ncalls>>

\* ... if (doDecorrelation) { this->initialDecorrelation(); } }
IntegrateDecorr ==
    /\ pc = "int_decorr"
    /\ IF hasPDF(pdfcont) /\ args.doDecorrelation
       THEN /\ pc' = "dec_entry"
            /\ trace' = Append(trace, "burnin")
       ELSE /\ pc' = "int_main"
            /\ UNCHANGED trace
    /\ UNCHANGED <<config, sinks, pdfcont, trialMove, obscont, wlkstate, acc, rej, ridx,
                   average, error, args, find, dec, smp, outcome, pre, estimated, ncalls>>

\* The main block entered for Nmc >= 0.
IntegrateMain_NonNegative ==
    /\ pc = "int_main"
    /\ IF args.Nmc >= 0
       THEN /\ obscont' = ContAllocate(obscont, args.Nmc)
            /\ trace' = Append(trace, "allocate")
            /\ pc' = "int_sample"
            /\ UNCHANGED outcome
       ELSE /\ pc' = "idle"
            /\ outcome' = "ok"
            /\ UNCHANGED <<obscont, trace>>
    /\ UNCHANGED <<config, sinks, pdfcont, trialMove, wlkstate, acc, rej, ridx, average, error,
                   args, find, dec, smp, pre, estimated, ncalls>>

\* if (Nmc > 0) { _obscont.allocate(Nmc, _pdfcont); ... } and the return
IntegrateMain ==
    /\ pc = "int_main"
    /\ IF args.Nmc > 0
       THEN /\ obscont' = ContAllocate(obscont, args.Nmc)
            /\ trace' = Append(trace, "allocate")
            /\ pc' = "int_sample"
            /\ UNCHANGED outcome
       ELSE /\ pc' = "idle"
            /\ outcome' = "ok"
            /\ UNCHANGED <<obscont, trace>>
    /\ UNCHANGED <<config, sinks, pdfcont, trialMove, wlkstate, acc, rej, ridx, average, error,
                   args, find, dec, smp, pre, estimated, ncalls>>

\* The two sinks are opened; this->sample(Nmc, _obscont, true), up to the loop
IntegrateSample ==
    /\ pc = "int_sample"
    /\ obscont' = ContReset(obscont)
    /\ trace' = Append(trace, "sample")
    /\ obsfile' = FileOpen(obsfile)
    /\ wlkfile' = FileOpen(wlkfile)
    /\ SampleStart(args.Nmc, "main", "int_est", obscont)
    /\ UNCHANGED <<config, average, error, args, find, dec, outcome, pre, estimated,
                   ncalls>>

\* The scaling by the volume applied to the averages only.
ScaledResults_AverageOnly(est, pdfs, dom) ==
    LET vol == RInt(getVolume(dom))
    IN  [k \in 1..Len(est) |->
            IF ~hasPDF(pdfs)
            THEN [avg |-> RMul(est[k].avg, vol), err2 |-> est[k].err2]
            ELSE est[k]]

\* The results handed to the caller: the estimates, scaled by the volume when
\* the sampling was uniform.
ScaledResults(est, pdfs, dom) ==
    LET vol == RInt(getVolume(dom))
    IN  [k \in 1..Len(est) |->
            IF ~hasPDF(pdfs)
            THEN [avg |-> RMul(est[k].avg, vol), err2 |-> RMul(est[k].err2, RMul(vol, vol))]
            ELSE est[k]]

\* The two sinks are closed; _obscont.estimate(average, error) and the scaling
\* by the volume
IntegrateEstimate ==
    /\ pc = "int_est"
    /\ obsfile' = FileClose(obsfile)
    /\ wlkfile' = FileClose(wlkfile)
    /\ IF ContEstimateRaises(obscont)
       THEN /\ Raise
            /\ UNCHANGED <<average, error, estimated, trace>>
       ELSE LET est == ContEstimate(obscont)
                res == ScaledResults(est, pdfcont, domain)
            IN  /\ estimated' = est
                /\ average' = [k \in 1..Len(res) |-> res[k].avg]
                /\ error' = [k \in 1..Len(res) |-> res[k].err2]
                /\ trace' = Append(trace, "estimate")
                /\ pc' = "int_dealloc"
                /\ UNCHANGED <<find, dec, smp, outcome>>
    /\ UNCHANGED <<config, pdfcont, trialMove, obscont, wlkstate, acc, rej, ridx, args,
                   pre, ncalls>>

\* _obscont.deallocate() and the return
IntegrateDeallocate ==
    /\ pc = "int_dealloc"
    /\ obscont' = ContDeallocate(obscont)
    /\ trace' = Append(trace, "deallocate")
    /\ pc' = "idle"
    /\ outcome' = "ok"
    /\ UNCHANGED <<config, sinks, pdfcont, trialMove, wlkstate, acc, rej, ridx, average, error,
                   args, find, dec, smp, pre, estimated, ncalls>>

\* ------------------------------------------------------------ the engines
\* The engine before the call: constructed, then configured by its setters.

NmcValues == (-1)..MaxNmc

DomainChoices == {UnboundDomain, OrthoPeriodicDomain([i \in Dims |-> 2])}

PdfChoices == {<<>>, <<PdfNew("peak")>>}

MoveChoices ==
    {[kind |-> k, nss |-> 1, idx |-> [i \in Dims |-> 1], step |-> <<ROne>>,
      protonew |-> 0, protoold |-> 0] : k \in {"all", "single"}}

ObsChoices ==
    {AccuNew("const", "Noop", 1, FALSE), AccuNew("x1", "Uncorrelated", 1, TRUE),
     AccuNew("partial", "Uncorrelated", 2, FALSE), AccuNew("partial", "Correlated", 1, TRUE)}

RECURSIVE SeqsUpTo(_, _)
SeqsUpTo(S, n) ==
    IF n = 0 THEN {<<>>}
    ELSE LET T == SeqsUpTo(S, n - 1)
         IN  T \cup {Append(t, x) : t \in {u \in T : Len(u) = n - 1}, x \in S}

NfindChoices == {0, -1}

NdecorrChoices == {0, 2, -4}

Origin == [i \in Dims |-> 0]

Init ==
    /\ obsfile = NoFile /\ wlkfile = NoFile
    /\ domain \in DomainChoices
    /\ pdfcont \in PdfChoices
    /\ trialMove \in MoveChoices
    /\ obscont \in SeqsUpTo(ObsChoices, MaxObs)
    /\ wlkstate = WalkerInit(Origin)
    /\ acc = 0 /\ rej = 0 /\ ridx = 0
    /\ targetaccrate = <<1, 2>>
    /\ NfindMRT2Iterations \in NfindChoices
    /\ NdecorrelationSteps \in NdecorrChoices
    /\ cback \in BOOLEAN
    /\ average = <<>> /\ error = <<>>
    /\ pc = "idle"
    /\ args = NoArgs
    /\ find = NoFind
    /\ dec = NoDec
    /\ smp = NoSmp
    /\ outcome = "none"
    /\ trace = <<>>
    /\ pre = Engine
    /\ estimated = <<>>
    /\ ncalls = 0

Next ==
    \/ \E n \in NmcValues, f \in BOOLEAN, d \in BOOLEAN : IntegrateCall(n, f, d)
    \/ IntegrateTune
    \/ FindEntry
    \/ FindLoopHead
    \/ FindAfterSample
    \/ IntegrateDecorr
    \/ DecorrEntry
    \/ DecorrFirst
    \/ DecorrLoop
    \/ IntegrateMain
    \/ IntegrateSample
    \/ SampleStep
    \/ SampleInc
    \/ IntegrateEstimate
    \/ IntegrateDeallocate

Spec == Init /\ [][Next]_vars

\* ------------------------------------------------------------ properties

RunningOrOk == outcome \in {"running", "ok"}

Returned == pc = "idle" /\ outcome \in {"ok", "error", "domain_error"}

\* C1: integrate() without a sampling function on an infinite domain fails with
\* the domain error before any tuning, burn-in, allocation or sampling step:
\* walker, counters, step sizes and accumulators are as they were at the call.
C1_DomainErrorBeforeAnything ==
    (ncalls > 0 /\ ~hasPDF(pdfcont) /\ ~domain.finite)
        => /\ outcome = "domain_error"
           /\ pc = "idle"
           /\ trace = <<>>
           /\ Engine = pre

C1_Witness ==
    /\ outcome = "domain_error"
    /\ Len(obscont) > 0
    /\ args.Nmc > 0 /\ args.doFindMRT2step /\ args.doDecorrelation

\* C2: after every completed MC step (MRT2 accepted, MRT2 rejected, or uniform)
\* xnew equals xold and the new proto values of every sampling function and of
\* the trial move equal the old ones.
C2_NewEqualsOldAfterStep ==
    pc = "smp_inc"
        => /\ wlkstate.xnew = wlkstate.xold
           /\ \A k \in 1..Len(pdfcont) : pdfcont[k].protonew = pdfcont[k].protoold
           /\ trialMove.protonew = trialMove.protoold

\* A rejected proposal to leave the peak of the density: the rollback acted on
\* the walker, the sampling function and the trial move.
C2_Witness ==
    /\ pc = "smp_inc"
    /\ hasPDF(pdfcont)
    /\ ~wlkstate.accepted
    /\ rej > 0 /\ acc > 0

\* C3: whenever integrate() has returned, normally or by an error raised while
\* sampling, finalizing or estimating, no accumulator of the engine's container
\* is left allocated and the temporary equilibration container is gone.
C3_ReleasedOnEveryExit ==
    (pc = "idle" /\ outcome \in {"ok", "error"})
        => /\ \A k \in 1..Len(obscont) : ~isAllocated(obscont[k])
           /\ ~dec.exists

\* The phases of integrate(), in the order of the code.
PhaseRank(p) ==
    CASE p = "tune" -> 1
      [] p = "burnin" -> 2
      [] p = "allocate" -> 3
      [] p = "sample" -> 4
      [] p = "finalize" -> 5
      [] p = "estimate" -> 6
      [] p = "deallocate" -> 7

\* The phase the running call is in, by where it stands ("" between phases).
CurrentPhase ==
    CASE pc \in {"find_entry", "find_head", "find_post"} -> "tune"
      [] pc \in {"dec_entry", "dec_first", "dec_loop"} -> "burnin"
      [] pc \in {"smp_body", "smp_inc"} /\ smp.ret = "find_post" -> "tune"
      [] pc \in {"smp_body", "smp_inc"} /\ smp.ret \in {"dec_first", "dec_loop"} -> "burnin"
      [] pc \in {"smp_body", "smp_inc"} /\ smp.ret = "int_main" -> "burnin"
      [] pc \in {"smp_body", "smp_inc"} /\ smp.ret = "int_est" -> "sample"
      [] pc = "int_sample" -> "allocate"
      [] pc = "int_est" -> "finalize"
      [] pc = "int_dealloc" -> "estimate"
      [] OTHER -> ""

MainPhases == <<"allocate", "sample", "finalize", "estimate", "deallocate">>

\* C4: in a call with Nmc > 0 the phases are entered in the order tuning,
\* burn-in, allocation, sampling loop, finalization, estimation, deallocation,
\* each at most once; every step of the call belongs to the phase entered last;
\* and a successful call has gone through all five main phases.
C4_PhaseOrder ==
    (RunningOrOk /\ args.Nmc > 0)
        => /\ \A i, j \in 1..Len(trace) :
                i < j => PhaseRank(trace[i]) < PhaseRank(trace[j])
           /\ CurrentPhase # "" => (trace # <<>> /\ trace[Len(trace)] = CurrentPhase)
           /\ outcome = "ok" =>
                /\ Len(trace) >= 5
                /\ SubSeq(trace, Len(trace) - 4, Len(trace)) = MainPhases

C4_Witness ==
    /\ outcome = "ok"
    /\ trace = <<"tune", "burnin">> \o MainPhases
    /\ NdecorrelationSteps < 0

\* C5 as claimed: tuning runs exactly when a PDF is configured and doTuneStep,
\* and burn-in runs exactly when doDecorrelate.
C5_Original ==
    outcome = "ok"
        => /\ (\E i \in 1..Len(trace) : trace[i] = "tune")
                <=> (hasPDF(pdfcont) /\ args.doFindMRT2step)
           /\ (\E i \in 1..Len(trace) : trace[i] = "burnin")
                <=> args.doDecorrelation

\* C5, amended: findMRT2Step is called exactly when a PDF is configured and
\* doFindMRT2step, and initialDecorrelation is called exactly when a PDF is
\* configured and doDecorrelation.
C5_TuneAndBurninNeedPDF ==
    outcome = "ok"
        => /\ (\E i \in 1..Len(trace) : trace[i] = "tune")
                <=> (hasPDF(pdfcont) /\ args.doFindMRT2step)
           /\ (\E i \in 1..Len(trace) : trace[i] = "burnin")
                <=> (hasPDF(pdfcont) /\ args.doDecorrelation)

\* Uniform sampling with both flags set: neither phase was entered.
C5_Witness ==
    /\ outcome = "ok"
    /\ ~hasPDF(pdfcont)
    /\ args.doDecorrelation /\ args.doFindMRT2step
    /\ trace = MainPhases

\* C6: a call with Nmc <= 0 allocates nothing, samples no main run and estimates
\* nothing: the caller's buffers and every accumulator stay as they were.
C6_NothingForNmcZero ==
    (RunningOrOk /\ args.Nmc <= 0)
        => /\ average = pre.average
           /\ error = pre.error
           /\ obscont = pre.obscont
           /\ estimated = <<>>
           /\ \A i \in 1..Len(trace) : trace[i] \in {"tune", "burnin"}
           /\ smp.cont # "main"

\* Tuning and burn-in ran and moved the walker, nothing else happened.
C6_Witness ==
    /\ outcome = "ok"
    /\ args.Nmc = 0
    /\ trace = <<"tune", "burnin">>
    /\ wlkstate.xold # pre.wlkstate.xold
    /\ Len(obscont) > 0

C8_CountersMatchIndex ==
    /\ pc = "smp_inc" => acc + rej = ridx + 1
    /\ pc = "smp_body" => acc + rej = ridx
    /\ (pc = "smp_body" /\ ridx = 0) => (acc = 0 /\ rej = 0)

\* The second step of the main run, after a tuning run that counted too.
C8_Witness ==
    /\ pc = "smp_inc"
    /\ smp.cont = "main"
    /\ ridx = 1 /\ acc = 1 /\ rej = 1
    /\ trace = <<"tune", "burnin", "allocate", "sample">>


\* ------------------------------------------------- step-size tuning alone
\* findMRT2Step followed from its call inside integrate(), over engines whose
\* domains, trial moves and iteration settings exercise its loop.

\* The largest number of tuning iterations asked for.
MaxFind == 6

TuneDomains ==
    {UnboundDomain, OrthoPeriodicDomain(<<1, 4>>), OrthoPeriodicDomain(<<3, 4>>)}

TuneSteps == {<<1, 2>>, <<4, 1>>}

TuneMoves ==
    {[kind |-> "all", nss |-> 0, idx |-> [i \in Dims |-> 1], step |-> <<>>,
      protonew |-> 0, protoold |-> 0]}
    \cup {[kind |-> k, nss |-> 1, idx |-> [i \in Dims |-> 1], step |-> <<s>>,
           protonew |-> 0, protoold |-> 0] : k \in {"all", "single"}, s \in TuneSteps}
    \cup {[kind |-> "all", nss |-> 2, idx |-> [i \in Dims |-> i], step |-> <<s, ROne>>,
           protonew |-> 0, protoold |-> 0] : s \in TuneSteps}

TuneNfindChoices == {-MaxFind, -1, 0, 2}

TuneTargets == {<<1, 2>>, ROne}

InitTune ==
    /\ obsfile = NoFile /\ wlkfile = NoFile
    /\ domain \in TuneDomains
    /\ pdfcont \in {<<PdfNew("peak")>>}
    /\ trialMove \in TuneMoves
    /\ obscont = <<>>
    /\ wlkstate = WalkerInit(Origin)
    /\ acc = 0 /\ rej = 0 /\ ridx = 0
    /\ targetaccrate \in TuneTargets
    /\ NfindMRT2Iterations \in TuneNfindChoices
    /\ NdecorrelationSteps = 1
    /\ cback = FALSE
    /\ average = <<>> /\ error = <<>>
    /\ pc = "find_entry"
    /\ args = [Nmc |-> 0, doFindMRT2step |-> TRUE, doDecorrelation |-> FALSE]
    /\ find = NoFind
    /\ dec = NoDec
    /\ smp = NoSmp
    /\ outcome = "running"
    /\ trace = <<"tune">>
    /\ pre = Engine
    /\ estimated = <<>>
    /\ ncalls = 1

NextTune ==
    \/ FindEntry
    \/ FindLoopHead
    \/ FindAfterSample
    \/ SampleStep
    \/ SampleInc

SpecTune == InitTune /\ [][NextTune]_vars

\* findMRT2Step has returned.
TuneReturned == pc = "int_decorr"

\* An iteration of the tuning loop is under way.
TuneIterating ==
    \/ pc = "find_post"
    \/ pc \in {"smp_body", "smp_inc"} /\ smp.ret = "find_post"

\* The stop rule of the spec, for a run of n requested iterations that made
\* `find.counter` of them.
StopRule(n) ==
    /\ TuneReturned =>
          /\ n > 0 => find.counter = n
          /\ n = 0 => find.counter = 0
          /\ n < 0 => /\ find.cons_count = MIN_CONS \/ find.counter = Abs(n)
                      /\ find.counter >= 1
    /\ TuneIterating =>
          /\ n > 0 => find.counter < n
          /\ n # 0
          /\ n < 0 => find.cons_count < MIN_CONS /\ find.counter < Abs(n)
    /\ find.counter <= Abs(n)

\* C9 as stated: findMRT2Step makes exactly NfindMRT2Iterations iterations
\* when that is positive, none when it is zero, and when it is negative stops
\* after the first iteration at which the within-tolerance counter is MIN_CONS
\* or the iteration count is |NfindMRT2Iterations|; never more than
\* |NfindMRT2Iterations| iterations.
C9_Original == StopRule(NfindMRT2Iterations)

\* C9, amended: the stop rule holds when the trial move has adjustable step
\* sizes; a trial move with none makes findMRT2Step return without an
\* iteration, whatever NfindMRT2Iterations is.
C9_StopRuleWithStepSizes ==
    /\ hasStepSizes(trialMove) => StopRule(NfindMRT2Iterations)
    /\ ~hasStepSizes(trialMove) => find.counter = 0 /\ ~TuneIterating

\* C9: a run with a negative setting ended by MIN_CONS consecutive rates within
\* tolerance, before |NfindMRT2Iterations| iterations were made.
C9_Witness ==
    /\ TuneReturned
    /\ hasStepSizes(trialMove)
    /\ NfindMRT2Iterations < 0
    /\ find.cons_count = MIN_CONS
    /\ find.counter < Abs(NfindMRT2Iterations)

\* The step size of dimension i is at most `cap`.
StepAtMost(i, cap) == RLe(trialMove.step[trialMove.idx[i]], cap)

\* Every step size is at least SMALLEST_STEP.
StepsFloored ==
    \A j \in 1..trialMove.nss :
        RLe(RInt(SMALLEST_ACCEPTABLE_DOUBLE), trialMove.step[j])

\* C10 as stated: after every iteration of the tuning every step size is at
\* least SMALLEST_STEP and the step size of dimension i is at most half the
\* size of the domain in dimension i.
C10_Original ==
    (find.counter >= 1 /\ hasStepSizes(trialMove)) =>
        /\ StepsFloored
        /\ domain.finite => \A i \in Dims : StepAtMost(i, Rat(domain.size[i], 2))

\* C10, amended: after every iteration of the tuning every step size is at
\* least SMALLEST_STEP and the step size of dimension i is at most the larger
\* of half the size of the domain in dimension i and SMALLEST_STEP, the floor
\* being applied after the cap.
C10_FlooredThenCapped ==
    (find.counter >= 1 /\ hasStepSizes(trialMove)) =>
        /\ StepsFloored
        /\ domain.finite =>
              \A i \in Dims :
                  StepAtMost(i, RMax(Rat(domain.size[i], 2),
                                     RInt(SMALLEST_ACCEPTABLE_DOUBLE)))

\* C10: after an iteration, two dimensions of different sizes share a step
\* size, which the cap holds at half the smaller size, above SMALLEST_STEP.
C10_Witness ==
    /\ find.counter >= 1
    /\ pc = "find_head"
    /\ domain.finite
    /\ trialMove.nss = 1
    /\ domain.size[1] < domain.size[2]
    /\ trialMove.step[1] = Rat(domain.size[1], 2)
    /\ RLt(RInt(SMALLEST_ACCEPTABLE_DOUBLE), trialMove.step[1])


\* ------------------------------------------------- the acceptance callback

\* The number of callback calls made so far in the sampling run under way.
CallbackCount ==
    /\ ~cback => smp.ncb = 0
    /\ cback => /\ pc = "smp_body" => smp.ncb = ridx + 1
                /\ pc = "smp_inc" => smp.ncb = ridx + 2

\* A sampling run starts: the callback is called once, with the counters reset
\* and the proto values initialized at xold, and with the container not yet
\* reset.
CallbackAtInit ==
    (cback /\ pc \notin {"smp_body", "smp_inc"} /\ pc' = "smp_body") =>
        LET s == smp'.seen
        IN  /\ smp'.ncb = 1
            /\ s.at = "init"
            /\ s.acc = 0 /\ s.rej = 0 /\ s.ridx = 0
            /\ s.wlkstate = wlkstate'
            /\ \A k \in 1..Len(pdfcont) :
                 /\ s.pdfcont[k].protoold = protoFunctionPdf(pdfcont[k].id, wlkstate.xold)
                 /\ s.pdfcont[k].protonew = s.pdfcont[k].protoold
            /\ s.trialMove.protoold = protoFunctionMove(wlkstate.xold)
            /\ smp'.cont = "main" => s.container = obscont
            /\ (smp'.cont = "equil" /\ dec.exists) => s.container = dec.obs_equil
            /\ Container' = ContReset(s.container)

\* A step is made: the callback is called once, after the decision and the
\* update of the counters, with the walker and the proto values not yet
\* committed or rolled back, which is what the step does next.
CallbackInStep ==
    (cback /\ pc = "smp_body" /\ pc' = "smp_inc") =>
        LET s == smp'.seen
        IN  /\ smp'.ncb = smp.ncb + 1
            /\ s.at = "step"
            /\ s.ridx = ridx
            /\ s.acc = acc' /\ s.rej = rej'
            /\ s.acc + s.rej = acc + rej + 1
            /\ s.wlkstate.accepted = wlkstate'.accepted
            /\ s.wlkstate.xold = wlkstate.xold
            /\ \A k \in 1..Len(pdfcont) : s.pdfcont[k].protoold = pdfcont[k].protoold
            /\ s.trialMove.protoold = trialMove.protoold
            /\ wlkstate' = IF s.wlkstate.accepted THEN WalkerNewToOld(s.wlkstate)
                           ELSE WalkerOldToNew(s.wlkstate)
            /\ hasPDF(pdfcont) =>
                 /\ pdfcont' = IF s.wlkstate.accepted THEN PdfContNewToOld(s.pdfcont)
                               ELSE PdfContOldToNew(s.pdfcont)
                 /\ trialMove' = IF s.wlkstate.accepted THEN MoveNewToOld(s.trialMove)
                                 ELSE MoveOldToNew(s.trialMove)

\* C11: with a callback set, a sampling run of n steps calls it n + 1 times:
\* once in the initialization, after the counters are reset and the proto
\* values initialized at xold and before the accumulators are reset, and once
\* in every step, accepted or rejected, after the decision and the update of
\* the counters and before the commit or the rollback.
C11_CallbackEveryStep == [](CallbackCount) /\ [][CallbackAtInit /\ CallbackInStep]_vars

\* The last step of a run of two steps or more, rejected: the callback was
\* called with the proposal that the step rolled back, n + 1 calls in all.
C11_Witness ==
    /\ cback
    /\ pc = "smp_inc"
    /\ smp.npoints >= 2
    /\ ridx + 1 = smp.npoints
    /\ smp.ncb = smp.npoints + 1
    /\ ~wlkstate.accepted
    /\ smp.seen.wlkstate.xnew # smp.seen.wlkstate.xold
    /\ wlkstate.xnew = smp.seen.wlkstate.xold


\* ------------------------------------------------------------ registration
\* The setters that install components, called on an engine that is not
\* integrating.  A component brings its own number of dimensions: that of a
\* domain is the length of its sizes, that of a trial move the length of its
\* step-size index map; sampling functions and observables are passed with it.


\* C23: with NdecorrelationSteps = n > 0 the burn-in is one sample() of exactly
\* n MRT2 steps that evaluates no observable; with NdecorrelationSteps = 0 it
\* performs no step and leaves walker, proto values and counters unchanged.
C23_FixedBurnin ==
    [][/\ (pc = "dec_entry" /\ NdecorrelationSteps > 0) =>
             /\ pc' = "smp_body"
             /\ smp'.npoints = NdecorrelationSteps /\ smp'.cont = "none"
             /\ smp'.ret = "int_main"
             /\ hasPDF(pdfcont)
       /\ (pc = "smp_inc" /\ smp.ret = "int_main" /\ smp.cont = "none"
             /\ pc' = "int_main") =>
             /\ ridx' = NdecorrelationSteps
             /\ acc' + rej' = NdecorrelationSteps
       /\ (pc \in {"dec_entry", "smp_body", "smp_inc"} /\ NdecorrelationSteps >= 0
             /\ ~(smp.cont \in {"main", "equil"})) =>
             /\ obscont' = obscont
             /\ dec' = NoDec
             /\ (pc' = "idle" \/ obscont' = pre.obscont)
       /\ (pc = "dec_entry" /\ NdecorrelationSteps = 0) =>
             /\ pc' = "int_main"
             /\ wlkstate' = wlkstate /\ pdfcont' = pdfcont /\ trialMove' = trialMove
             /\ acc' = acc /\ rej' = rej /\ ridx' = ridx]_vars

\* A burn-in of two steps has returned, one step accepted and one rejected,
\* on an engine that holds an observable.
C23_Witness ==
    /\ pc = "int_main"
    /\ trace # <<>> /\ trace[Len(trace)] = "burnin"
    /\ NdecorrelationSteps = 2
    /\ acc = 1 /\ rej = 1 /\ ridx = 2
    /\ Len(obscont) = 1 /\ obscont = pre.obscont


\* A batch of the automatic burn-in is being sampled.
BurninBatch == pc \in {"smp_body", "smp_inc"} /\ smp.cont = "equil"

\* The burn-in steps of the batches completed before the running one: none in
\* the first batch, then the first batch and the passes of the loop counted in
\* countNMC.
BurninStepsBefore == IF smp.ret = "dec_first" THEN 0 ELSE MIN_NMC + dec.countNMC

\* C24 (as stated): the automatic burn-in stops as soon as the cumulative
\* number of burn-in steps sampled in the phase, all batches counted, reaches
\* |NdecorrelationSteps|: no batch is begun at or past the cap, and reaching
\* the cap does not fail the call.
C24_StopsAtCumulativeCap ==
    /\ BurninBatch => BurninStepsBefore < Abs(NdecorrelationSteps)
    /\ (pc = "dec_loop" /\ dec.countNMC + MIN_NMC >= Abs(NdecorrelationSteps))
          => outcome = "running"


\* C25 (as stated): with NdecorrelationSteps < 0 and no observable flagged for
\* equilibration the burn-in is empty: no step of it is sampled, and the phase
\* is left at once with the walker and the counters as they were.
C25_EmptyBurnin ==
    /\ [](BurninBatch => dec.obs_equil # <<>>)
    /\ [][(pc = "dec_entry" /\ NdecorrelationSteps < 0 /\ EquilContainer(obscont) = <<>>) =>
               /\ pc' = "int_main"
               /\ wlkstate' = wlkstate /\ acc' = acc /\ rej' = rej /\ ridx' = ridx]_vars


\* sample() with a container has ended its loop and finalizes the container.
Finalizing == pc = "smp_inc" /\ smp.cont # "none" /\ ridx + 1 >= smp.npoints

\* C37: when the integrator finalizes a container, after the main run or a
\* batch of the burn-in, every accumulator in it is allocated, was reset when
\* the run began and has received as many accumulate calls as the nsteps it
\* is allocated for; so the step index never passes nsteps, finalize does not
\* raise, and the estimate that follows finds every accumulator finalized.
C37_FinalizeOnFullRun ==
    /\ []((pc \in {"smp_body", "smp_inc"} /\ smp.cont # "none")
            => \A k \in 1..Len(Container) :
                  /\ isAllocated(Container[k])
                  /\ Container[k].nsteps = smp.npoints
                  /\ Container[k].stepidx = IF pc = "smp_body" THEN ridx ELSE ridx + 1
                  /\ Container[k].stepidx <= Container[k].nsteps
                  /\ ~isFinalized(Container[k]))
    /\ [](Finalizing => /\ ~ContFinalizeRaises(Container)
                        /\ \A k \in 1..Len(Container) :
                              Container[k].stepidx = Container[k].nsteps)
    /\ [](pc = "int_est" => ~ContEstimateRaises(obscont))
    /\ [](pc \in {"dec_first", "dec_loop"} => ~ContEstimateRaises(dec.obs_equil))
    /\ [][(pc = "smp_inc" /\ smp.cont # "none" /\ pc' # "smp_body")
            => /\ pc' = smp.ret
               /\ \A k \in 1..Len(Container) :
                     Container[k].stepidx = Container[k].nsteps]_vars

\* The main run of two steps on a container with an observable is about to be
\* finalized after a burn-in batch had been.
C37_Witness ==
    /\ Finalizing /\ smp.cont = "main" /\ smp.npoints = 2
    /\ Len(obscont) > 0 /\ obscont[1].stepidx = 2
    /\ NdecorrelationSteps < 0 /\ args.doDecorrelation

\* The position a proposal q of the trial move stands for once the domain was
\* applied to it.
ProposedPosition(q) ==
    IF Cardinality(q.changedIdx) < NDIM
    THEN applyDomainSelective(domain, q.xnew, q.changedIdx)
    ELSE applyDomain(domain, q.xnew)

\* C28: xold is the last accepted position: a rejected MRT2 step leaves xold
\* and the old proto values of every sampling function and of the trial move
\* as they were, an accepted one sets xold to the proposed position after the
\* domain was applied and the old proto values to those of the proposal.
C28_XoldLastAccepted ==
    [][(pc = "smp_body" /\ hasPDF(pdfcont)) =>
          IF wlkstate'.accepted
          THEN \E q \in MoveProposals(trialMove, wlkstate.xold) :
                  /\ wlkstate'.xold = ProposedPosition(q)
                  /\ Len(pdfcont') = Len(pdfcont)
                  /\ \A k \in 1..Len(pdfcont) :
                        pdfcont'[k].protoold
                            = protoFunctionPdf(pdfcont[k].id, ProposedPosition(q))
                  /\ trialMove'.protoold = protoFunctionMove(q.xnew)
          ELSE /\ wlkstate'.xold = wlkstate.xold
               /\ Len(pdfcont') = Len(pdfcont)
               /\ \A k \in 1..Len(pdfcont) : pdfcont'[k].protoold = pdfcont[k].protoold
               /\ trialMove'.protoold = trialMove.protoold]_vars

\* A rejected step after an accepted one: xold is where the accepted step went.
C28_Witness ==
    /\ pc = "smp_inc" /\ hasPDF(pdfcont)
    /\ ~wlkstate.accepted /\ acc = 1 /\ rej = 1
    /\ wlkstate.xold # Origin
    /\ pdfcont[1].protoold = 2


UniformSampling == pc \in {"smp_body", "smp_inc"} /\ ~hasPDF(pdfcont)

\* C30: without a sampling function every step is accepted: rej stays 0, acc
\* is the number of steps done and the acceptance rate after a step is 1; a
\* step marks all NDIM coordinates as changed (as the callback sees it, before
\* the commit) and xold after it is the new draw, a position of the domain.
C30_UniformAlwaysAccepted ==
    /\ [](UniformSampling =>
             /\ rej = 0
             /\ acc = (IF pc = "smp_inc" THEN ridx + 1 ELSE ridx)
             /\ (acc >= 1 => getAcceptanceRate(acc, rej) = ROne))
    /\ [][(pc = "smp_body" /\ ~hasPDF(pdfcont)) =>
             /\ wlkstate'.accepted
             /\ acc' = acc + 1 /\ rej' = rej
             /\ wlkstate'.xold \in Positions(domain)
             /\ wlkstate'.xold = wlkstate'.xnew
             /\ (cback /\ pc' = "smp_inc") =>
                   /\ smp'.seen.wlkstate.nchanged = NDIM
                   /\ smp'.seen.wlkstate.changedIdx = Dims
                   /\ smp'.seen.wlkstate.xnew = wlkstate'.xold]_vars

\* The second uniform step of a run, which went to another position than the
\* first, seen by a callback.
C30_Witness ==
    /\ pc = "smp_inc" /\ ~hasPDF(pdfcont) /\ domain.finite
    /\ acc = 2 /\ rej = 0 /\ ridx = 1
    /\ getAcceptanceRate(acc, rej) = ROne
    /\ cback /\ smp.seen.at = "step" /\ smp.seen.wlkstate.nchanged = NDIM
    /\ wlkstate.xold # Origin /\ wlkstate.xold = smp.seen.wlkstate.xnew


\* Step sizes s and t stand in the same ratio as the step sizes s0 and t0.
SameRatio(s, t, s0, t0) == RMul(s, t0) = RMul(t, s0)

NoGuardBites(tm, dom, f) ==
    /\ \A i \in Dims :
          dom.finite => RLe(RMul(tm.step[tm.idx[i]], f), Rat(dom.size[i], 2))
    /\ \A j \in 1..tm.nss :
          RLe(RInt(SMALLEST_ACCEPTABLE_DOUBLE), RMul(tm.step[j], f))

MaxSetup == 3

\* What the setters may change.
SetupState ==
    [domain |-> domain, trialMove |-> trialMove, pdfcont |-> pdfcont,
     obscont |-> obscont, wlkstate |-> wlkstate]

\* A setter is entered: the bookkeeping of the call.
SetterCall(a) ==
    /\ pc = "idle"
    /\ ncalls < MaxSetup
    /\ ncalls' = ncalls + 1
    /\ args' = a
    /\ pre' = SetupState
    /\ UNCHANGED <<targetaccrate, NfindMRT2Iterations, NdecorrelationSteps, cback, acc,
                   rej, ridx, average, error, pc, find, dec, smp, trace, estimated,
                   sinks>>

\* setDomain with the swap made before the check.
setDomain_SwapFirst(d) ==
    /\ SetterCall([op |-> "setDomain", ndim |-> Len(d.size)])
    /\ domain' = d
    /\ outcome' = IF Len(d.size) # NDIM THEN "invalid_argument" ELSE "ok"
    /\ UNCHANGED <<wlkstate, trialMove, pdfcont, obscont>>

\* MCI::setDomain
setDomain(d) ==
    /\ SetterCall([op |-> "setDomain", ndim |-> Len(d.size)])
    /\ IF Len(d.size) # NDIM
       THEN /\ outcome' = "invalid_argument"
            /\ UNCHANGED <<domain, wlkstate>>
       ELSE /\ outcome' = "ok"
            /\ domain' = d
            /\ wlkstate' = [wlkstate EXCEPT !.xold = applyDomain(d, wlkstate.xold)]
    /\ UNCHANGED <<trialMove, pdfcont, obscont>>

\* MCI::setTrialMove(std::unique_ptr<TrialMoveInterface>)
setTrialMove(tm) ==
    /\ SetterCall([op |-> "setTrialMove", ndim |-> Len(tm.idx)])
    /\ IF Len(tm.idx) # NDIM
       THEN /\ outcome' = "invalid_argument"
            /\ UNCHANGED trialMove
       ELSE /\ outcome' = "ok"
            /\ trialMove' = tm
    /\ UNCHANGED <<domain, wlkstate, pdfcont, obscont>>

\* selectEstimatorType(flag_correlated, flag_error)
selectEstimatorType(flag_correlated, flag_error) ==
    IF ~flag_error THEN "Noop"
    ELSE IF flag_correlated THEN "Correlated" ELSE "Uncorrelated"

\* addObservable without the check of the equilibration flag.
addObservable_NoEquilCheck(n, obs, blocksize, nskip, flag_equil, estimType, overload) ==
    /\ SetterCall([op |-> "addObservable", ndim |-> n, blocksize |-> blocksize,
                   nskip |-> nskip, flag_equil |-> flag_equil, estimType |-> estimType,
                   overload |-> overload])
    /\ IF n # NDIM
       THEN /\ outcome' = "invalid_argument"
            /\ UNCHANGED obscont
       ELSE /\ outcome' = "ok"
            /\ obscont' = Append(obscont, AccuNew(obs, estimType,
                                                  IF nskip < 1 THEN 1 ELSE nskip,
                                                  flag_equil))
    /\ UNCHANGED <<domain, wlkstate, trialMove, pdfcont>>

\* MCI::addObservable(obs, blocksize, nskip, flag_equil, estimType); `overload`
\* tells which overload the caller used.
addObservable(n, obs, blocksize, nskip, flag_equil, estimType, overload) ==
    /\ SetterCall([op |-> "addObservable", ndim |-> n, blocksize |-> blocksize,
                   nskip |-> nskip, flag_equil |-> flag_equil, estimType |-> estimType,
                   overload |-> overload])
    /\ IF n # NDIM \/ (flag_equil /\ estimType = "Noop")
       THEN /\ outcome' = "invalid_argument"
            /\ UNCHANGED obscont
       ELSE /\ outcome' = "ok"
            /\ obscont' = Append(obscont, AccuNew(obs, estimType,
                                                  IF nskip < 1 THEN 1 ELSE nskip,
                                                  flag_equil))
    /\ UNCHANGED <<domain, wlkstate, trialMove, pdfcont>>

\* MCI::addObservable(obs, blocksize, nskip, flag_equil, flag_correlated)
addObservableFlag(n, obs, blocksize, nskip, flag_equil, flag_correlated) ==
    addObservable(n, obs, blocksize, nskip, flag_equil,
                  selectEstimatorType(flag_correlated, blocksize > 0), "flag")

\* MCI::addSamplingFunction
addSamplingFunction(n, id) ==
    /\ SetterCall([op |-> "addSamplingFunction", ndim |-> n])
    /\ IF n # NDIM
       THEN /\ outcome' = "invalid_argument"
            /\ UNCHANGED pdfcont
       ELSE /\ outcome' = "ok"
            /\ pdfcont' = Append(pdfcont, PdfNew(id))
    /\ UNCHANGED <<domain, wlkstate, trialMove, obscont>>

\* The numbers of dimensions of the components passed in.
SetupNDims == {NDIM - 1, NDIM, NDIM + 1}

SetupDomains ==
    {[finite |-> f, size |-> [i \in 1..n |-> IF f THEN 2 ELSE 0]] :
         f \in BOOLEAN, n \in SetupNDims}

SetupMoves ==
    {[kind |-> "single", nss |-> 1, idx |-> [i \in 1..n |-> 1], step |-> <<ROne>>,
      protonew |-> 0, protoold |-> 0] : n \in SetupNDims}

\* The engine as constructed, the walker put somewhere by setX.
InitSetup ==
    /\ obsfile = NoFile /\ wlkfile = NoFile
    /\ domain = UnboundDomain
    /\ pdfcont = <<>>
    /\ trialMove = [kind |-> "all", nss |-> 1, idx |-> [i \in Dims |-> 1],
                    step |-> <<ROne>>, protonew |-> 0, protoold |-> 0]
    /\ obscont = <<>>
    /\ wlkstate \in {WalkerInit(Origin), WalkerInit([i \in Dims |-> 3])}
    /\ acc = 0 /\ rej = 0 /\ ridx = 0
    /\ targetaccrate = <<1, 2>>
    /\ NfindMRT2Iterations = 0
    /\ NdecorrelationSteps = 0
    /\ cback = FALSE
    /\ average = <<>> /\ error = <<>>
    /\ pc = "idle"
    /\ args = [op |-> "none", ndim |-> NDIM]
    /\ find = NoFind
    /\ dec = NoDec
    /\ smp = NoSmp
    /\ outcome = "none"
    /\ trace = <<>>
    /\ pre = SetupState
    /\ estimated = <<>>
    /\ ncalls = 0

NextSetup ==
    \/ \E d \in SetupDomains : setDomain(d)
    \/ \E tm \in SetupMoves : setTrialMove(tm)
    \/ \E n \in SetupNDims, obs \in {"x1"}, b \in {0, 1}, k \in {0, 2},
          e \in BOOLEAN, t \in EstimatorTypes : addObservable(n, obs, b, k, e, t, "type")
    \/ \E n \in SetupNDims, obs \in {"x1"}, b \in {0, 1}, k \in {0, 2},
          e \in BOOLEAN, c \in BOOLEAN : addObservableFlag(n, obs, b, k, e, c)
    \/ \E n \in SetupNDims, id \in PdfIds : addSamplingFunction(n, id)

SpecSetup == InitSetup /\ [][NextSetup]_vars

\* The setters that take a component with its own number of dimensions.
ComponentSetters == {"setDomain", "setTrialMove", "addObservable", "addSamplingFunction"}

\* The last setter call failed and changed nothing.
RejectedUnchanged == outcome = "invalid_argument" /\ SetupState = pre

\* C12: registering a component whose ndim differs from the engine's fails at
\* registration and leaves the engine as it was: domain, trial move, observable
\* list and sampling-function list are those from before the call.
C12_MismatchRejected ==
    (args.op \in ComponentSetters /\ args.ndim # NDIM) => RejectedUnchanged

\* A domain of the wrong dimension is refused by an engine that has a finite
\* domain and an observable installed: both are still there.
C12_Witness ==
    /\ args.op = "setDomain" /\ args.ndim # NDIM
    /\ outcome = "invalid_argument"
    /\ domain.finite
    /\ Len(obscont) = 1

\* C13: addObservable with flag_equil and the Noop estimator, which the flag
\* overload selects for blocksize <= 0, fails with invalid_argument and adds
\* nothing; so every observable of the container flagged for equilibration has
\* an estimator that computes an error.
C13_NoEquilWithoutError ==
    /\ (args.op = "addObservable" /\ args.overload = "flag" /\ args.blocksize <= 0)
          => args.estimType = "Noop"
    /\ (args.op = "addObservable" /\ args.flag_equil /\ args.estimType = "Noop")
          => RejectedUnchanged
    /\ \A k \in 1..Len(obscont) : obscont[k].equil => obscont[k].est # "Noop"

\* The flag overload, called with blocksize 0 and flag_equil on an engine that
\* has an observable, is refused; the ndim was right.
C13_Witness ==
    /\ args.op = "addObservable" /\ args.overload = "flag"
    /\ args.ndim = NDIM
    /\ args.blocksize <= 0 /\ args.flag_equil
    /\ outcome = "invalid_argument"
    /\ Len(obscont) = 1 /\ obscont[1].equil

\* --------------------------------------------------- accumulator life cycle
\* One accumulator, driven from outside by allocate, accumulate, finalize,
\* reset, deallocate and its container's estimate, in any order.

\* The largest number of steps an accumulator is allocated for.
MaxAccuN == 2

\* The walker positions handed to accumulate.
AccuXs == {[i \in Dims |-> IF i = 1 THEN 1 ELSE 0], [i \in Dims |-> IF i = 1 THEN 0 ELSE -1]}

\* The accumulator under test.
Accu == obscont[1]

\* No run of the accumulator was finalized yet.
NoRef == [exists |-> FALSE, n |-> 0, xs |-> <<>>, data |-> <<>>, again |-> {}]

\* What a call on the accumulator leaves alone.
AccuFrame ==
    UNCHANGED <<domain, pdfcont, trialMove, wlkstate, acc, rej, ridx, targetaccrate,
                NfindMRT2Iterations, NdecorrelationSteps, cback, pc, find, dec, smp,
                ncalls, sinks>>

\* The bookkeeping of a call: its name and argument, the accumulator before it
\* and how the accumulation now under way was begun.
AccuCall(a, via) ==
    /\ pc = "idle"
    /\ args' = a
    /\ pre' = [accu |-> Accu, via |-> via]
    /\ AccuFrame

\* allocate(nsteps)
allocate(n) ==
    /\ AccuCall([op |-> "allocate", n |-> n],
                IF isAllocated(Accu) THEN "allocate"
                ELSE IF pre.via = "new" THEN "first" ELSE "deallocate-allocate")
    /\ obscont' = ContAllocate(obscont, n)
    /\ outcome' = "ok"
    /\ trace' = <<>>
    /\ UNCHANGED <<average, error, estimated>>

\* accumulate(wlk), within the allocation
accumulate(x) ==
    /\ Accu.stepidx < Accu.nsteps
    /\ AccuCall([op |-> "accumulate", x |-> x], pre.via)
    /\ obscont' = ContAccumulate(obscont, x, Len(obscont))
    /\ outcome' = "ok"
    /\ trace' = Append(trace, x)
    /\ UNCHANGED <<average, error, estimated>>

\* finalize(): the first finalized run is kept as the reference, a later one
\* of the same length over the same walker states is noted.
finalize ==
    /\ AccuCall([op |-> "finalize"], pre.via)
    /\ IF ContFinalizeRaises(obscont)
       THEN /\ outcome' = "runtime_error"
            /\ UNCHANGED <<obscont, estimated>>
       ELSE /\ outcome' = "ok"
            /\ obscont' = ContFinalize(obscont)
            /\ estimated' =
                 IF isFinalized(Accu) \/ ~isAllocated(Accu) THEN estimated
                 ELSE IF ~estimated.exists
                 THEN [exists |-> TRUE, n |-> Accu.nsteps, xs |-> trace,
                       data |-> obscont'[1].data, again |-> {}]
                 ELSE IF estimated.n = Accu.nsteps /\ estimated.xs = trace
                 THEN [estimated EXCEPT !.again = @ \cup {pre.via}]
                 ELSE estimated
    /\ UNCHANGED <<average, error, trace>>

\* reset()
reset ==
    /\ AccuCall([op |-> "reset"], IF isAllocated(Accu) THEN "reset" ELSE pre.via)
    /\ obscont' = ContReset(obscont)
    /\ outcome' = "ok"
    /\ trace' = <<>>
    /\ UNCHANGED <<average, error, estimated>>

\* deallocate()
deallocate ==
    /\ AccuCall([op |-> "deallocate"], "deallocated")
    /\ obscont' = ContDeallocate(obscont)
    /\ outcome' = "ok"
    /\ trace' = <<>>
    /\ UNCHANGED <<average, error, estimated>>

\* estimate(average, error) of the container
estimate ==
    /\ AccuCall([op |-> "estimate"], pre.via)
    /\ IF ContEstimateRaises(obscont)
       THEN /\ outcome' = "runtime_error"
            /\ UNCHANGED <<average, error>>
       ELSE LET res == ContEstimate(obscont)
            IN  /\ outcome' = "ok"
                /\ average' = [k \in 1..Len(res) |-> res[k].avg]
                /\ error' = [k \in 1..Len(res) |-> res[k].err2]
    /\ UNCHANGED <<obscont, trace, estimated>>

\* A container with one freshly constructed accumulator, simple (Noop) or full
\* (Uncorrelated; Correlated stores the same); the engine around it is idle and
\* as constructed.
InitAccu ==
    /\ obsfile = NoFile /\ wlkfile = NoFile
    /\ \E obs \in {"x1", "xnd"}, est \in {"Noop", "Uncorrelated"}, nskip \in {1, 2} :
          obscont = <<AccuNew(obs, est, nskip, FALSE)>>
    /\ domain = UnboundDomain
    /\ pdfcont = <<>>
    /\ trialMove = [kind |-> "all", nss |-> 1, idx |-> [i \in Dims |-> 1],
                    step |-> <<ROne>>, protonew |-> 0, protoold |-> 0]
    /\ wlkstate = WalkerInit(Origin)
    /\ acc = 0 /\ rej = 0 /\ ridx = 0
    /\ targetaccrate = <<1, 2>>
    /\ NfindMRT2Iterations = -1
    /\ NdecorrelationSteps = -4
    /\ cback = FALSE
    /\ average = [k \in 1..getNObs(Accu) |-> Sentinel]
    /\ error = [k \in 1..getNObs(Accu) |-> Sentinel]
    /\ pc = "idle"
    /\ args = [op |-> "construct"]
    /\ find = NoFind
    /\ dec = NoDec
    /\ smp = NoSmp
    /\ outcome = "ok"
    /\ trace = <<>>
    /\ pre = [accu |-> Accu, via |-> "new"]
    /\ estimated = NoRef
    /\ ncalls = 0

NextAccu ==
    \/ \E n \in 1..MaxAccuN : allocate(n)
    \/ \E x \in AccuXs : accumulate(x)
    \/ finalize
    \/ reset
    \/ deallocate
    \/ estimate

SpecAccu == InitAccu /\ [][NextAccu]_vars

\* The steps of a run of the accumulator on which the observable is evaluated.
EvaluatedSteps(a) == {k \in 0..(a.nsteps - 1) : k % a.nskip = 0}

\* The getters of one accumulator against its fields and its data buffer.
GettersMatchState(a) ==
    /\ isAllocated(a) <=> a.nsteps > 0
    /\ isAllocated(a) <=> Len(a.data) > 0
    /\ getNAccu(a) = IF a.nsteps > 0 THEN 1 + (a.nsteps - 1) \div a.nskip ELSE 0
    /\ getNAccu(a) = Cardinality(EvaluatedSteps(a))
    /\ isClean(a) <=> a.stepidx = 0
    /\ getNData(a) = getNStore(a) * getNObs(a)
    /\ Len(a.data) = getNData(a)

\* C14: in every state of an accumulator isAllocated() holds iff nsteps > 0,
\* getNAccu() is 1 + (nsteps - 1) / nskip (integer division) when nsteps > 0 and
\* 0 otherwise (the number of steps evaluated), isClean() holds iff stepidx = 0,
\* and getNData() is getNStore() * nobs (the length of the data buffer).
C14_GettersMatchState == \A k \in 1..Len(obscont) : GettersMatchState(obscont[k])

\* A full accumulator of a two-valued observable with nskip 2, allocated for
\* two steps and holding the first: one evaluation, two data elements.
C14_Witness ==
    /\ Accu.obs = "xnd" /\ Accu.est = "Uncorrelated" /\ Accu.nskip = 2
    /\ getNSteps(Accu) = 2 /\ getStepIndex(Accu) = 1
    /\ getNAccu(Accu) = 1 /\ getNData(Accu) = 2
    /\ ~isClean(Accu) /\ isAllocated(Accu)

\* Every element of the data buffer is 0.
DataAllZero(a) == \A k \in 1..Len(a.data) : a.data[k] = RZero

\* The clean reset state (allocated or not).
Resetted(a) ==
    /\ getStepIndex(a) = 0
    /\ isClean(a)
    /\ ~isFinalized(a)
    /\ Len(a.data) = getNData(a)
    /\ DataAllZero(a)

\* C15: reset() on an accumulator in any state (allocated or deallocated,
\* partially accumulated or finalized) leaves stepidx = 0, isClean() true,
\* isFinalized() false and every data element 0, and changes neither nsteps nor
\* getNStore() nor the allocation.
C15_ResetFrame ==
    [][args'.op = "reset" =>
          /\ outcome' = "ok"
          /\ Resetted(Accu')
          /\ getNSteps(Accu') = getNSteps(Accu)
          /\ getNStore(Accu') = getNStore(Accu)
          /\ getNData(Accu') = getNData(Accu)
          /\ isAllocated(Accu') <=> isAllocated(Accu)
          /\ Len(Accu'.data) = Len(Accu.data)]_vars

\* reset() was called on a finalized accumulator of two steps that held a
\* value other than 0.
C15_Witness ==
    /\ args.op = "reset"
    /\ isFinalized(pre.accu) /\ getNSteps(pre.accu) = 2
    /\ ~DataAllZero(pre.accu)
    /\ Resetted(Accu) /\ getNSteps(Accu) = 2

\* The deallocated state.
Deallocated(a) ==
    /\ ~isAllocated(a)
    /\ getNSteps(a) = 0
    /\ getNAccu(a) = 0
    /\ getNStore(a) = 0
    /\ getNData(a) = 0
    /\ Resetted(a)

\* C16: a freshly constructed accumulator, and an accumulator after
\* deallocate() from any state, is deallocated: not allocated, getNSteps(),
\* getNAccu(), getNStore() and getNData() all 0, stepidx 0, not finalized.
C16_DeallocatedState ==
    (args.op \in {"construct", "deallocate"}) => (outcome = "ok" /\ Deallocated(Accu))

\* deallocate() was called on a finalized accumulator of two steps.
C16_Witness ==
    /\ args.op = "deallocate"
    /\ isFinalized(pre.accu) /\ getNSteps(pre.accu) = 2 /\ getStepIndex(pre.accu) = 2
    /\ Deallocated(Accu)

\* The allocated state for n steps (clean or not).
Allocated(a, n) ==
    /\ isAllocated(a)
    /\ getNSteps(a) = n
    /\ getNAccu(a) > 0
    /\ getNStore(a) > 0
    /\ getNData(a) > 0

\* C17: allocate(N) with N > 0 from any state yields an allocated accumulator
\* with nsteps = N in the clean reset state (stepidx 0, not finalized, data all
\* 0); a second allocate(N) right after the first changes nothing.
C17_AllocateResets ==
    [][args'.op = "allocate" =>
          /\ outcome' = "ok"
          /\ Allocated(Accu', args'.n)
          /\ Resetted(Accu')
          /\ (args.op = "allocate" /\ args.n = args'.n) => Accu' = Accu]_vars

\* allocate(2) was called on an accumulator allocated for two steps that held
\* one step with a value other than 0.
C17_Witness ==
    /\ args.op = "allocate" /\ args.n = 2
    /\ getNSteps(pre.accu) = 2 /\ getStepIndex(pre.accu) = 1
    /\ ~DataAllZero(pre.accu)
    /\ Allocated(Accu, 2) /\ Resetted(Accu)

\* finalize() is called before all nsteps steps were accumulated.
Premature(a) == isAllocated(a) /\ getStepIndex(a) < getNSteps(a)

\* A finalized accumulator is allocated and holds all its steps.
FinalizedComplete(a) ==
    isFinalized(a) => (getNSteps(a) >= 1 /\ getStepIndex(a) = getNSteps(a))

\* C18: finalize() on an allocated accumulator that has not received all nsteps
\* accumulate calls fails and leaves it not finalized; on a deallocated or an
\* already finalized accumulator it does nothing and raises nothing;
\* isFinalized() turns true only in a finalize() after all nsteps >= 1 steps
\* were accumulated, with stepidx = nsteps.
C18_FinalizeContract ==
    /\ [](FinalizedComplete(Accu))
    /\ [][/\ (args'.op = "finalize" /\ Premature(Accu))
                => (outcome' = "runtime_error" /\ ~isFinalized(Accu'))
          /\ (args'.op = "finalize" /\ (~isAllocated(Accu) \/ isFinalized(Accu)))
                => (outcome' = "ok" /\ Accu' = Accu)
          /\ (isFinalized(Accu') /\ ~isFinalized(Accu))
                => /\ args'.op = "finalize" /\ outcome' = "ok"
                   /\ getNSteps(Accu) >= 1
                   /\ Len(trace) = getNSteps(Accu)
                   /\ getStepIndex(Accu') = getNSteps(Accu')]_vars

\* After an earlier run was finalized, finalize() is refused on an accumulator
\* that holds one of its two steps.
C18_Witness ==
    /\ args.op = "finalize" /\ outcome = "runtime_error"
    /\ estimated.exists
    /\ getNSteps(Accu) = 2 /\ getStepIndex(Accu) = 1
    /\ ~isFinalized(Accu)

\* The finalized accumulator repeats the reference run: as many steps over the
\* same walker states.
RepeatsReference ==
    /\ isFinalized(Accu)
    /\ estimated.exists
    /\ estimated.n = getNSteps(Accu)
    /\ estimated.xs = trace

C20_EstimatorNeedsFinalized ==
    [][args'.op = "estimate" =>
          IF isFinalized(Accu)
          THEN /\ outcome' = "ok"
               /\ Len(average') = getNObs(Accu) /\ Len(error') = getNObs(Accu)
               /\ \A j \in 1..getNObs(Accu) :
                     /\ average'[j] = Mean(Column(Accu, j))
                     /\ error'[j] # Sentinel
          ELSE /\ outcome' = "runtime_error"
               /\ average' = average /\ error' = error]_vars

\* After an estimate of a finalized run the accumulator was reset and took one
\* of its two steps; the estimator is called again and fails, the buffers still
\* hold the earlier estimate.
C20_Witness ==
    /\ args.op = "estimate" /\ outcome = "runtime_error"
    /\ pre.via = "reset"
    /\ getNSteps(Accu) = 2 /\ getStepIndex(Accu) = 1
    /\ average[1] # Sentinel

\* ------------------------------------------------- accumulators side by side
\* A simple, a full and a block accumulator of the same observable with the
\* same nskip, allocated together and fed the same walker states.

\* The largest number of steps the three are allocated for.
MaxMeanN == 4

InitMean ==
    /\ obsfile = NoFile /\ wlkfile = NoFile
    /\ \E obs \in {"x1", "xnd"}, nskip \in {1, 2}, nblocks \in {1, 2} :
          obscont = <<AccuNew(obs, "Noop", nskip, FALSE),
                      AccuNew(obs, "Uncorrelated", nskip, FALSE),
                      AccuNewBlock(obs, nskip, nblocks)>>
    /\ domain = UnboundDomain
    /\ pdfcont = <<>>
    /\ trialMove = [kind |-> "all", nss |-> 1, idx |-> [i \in Dims |-> 1],
                    step |-> <<ROne>>, protonew |-> 0, protoold |-> 0]
    /\ wlkstate = WalkerInit(Origin)
    /\ acc = 0 /\ rej = 0 /\ ridx = 0
    /\ targetaccrate = <<1, 2>>
    /\ NfindMRT2Iterations = 0
    /\ NdecorrelationSteps = 0
    /\ cback = FALSE
    /\ average = <<>> /\ error = <<>>
    /\ pc = "idle"
    /\ args = [op |-> "construct"]
    /\ find = NoFind
    /\ dec = NoDec
    /\ smp = NoSmp
    /\ outcome = "ok"
    /\ trace = <<>>
    /\ pre = [accu |-> Accu, via |-> "new"]
    /\ estimated = NoRef
    /\ ncalls = 0

\* allocate (for at least one step per block), accumulate, finalize
NextMean ==
    \/ \E n \in 1..MaxMeanN :
          /\ \A k \in 1..Len(obscont) :
                getNAccu([obscont[k] EXCEPT !.nsteps = n]) >= obscont[k].nblocks
          /\ allocate(n)
    \/ \E x \in AccuXs : accumulate(x)
    \/ finalize

SpecMean == InitMean /\ [][NextMean]_vars

\* The mean of the j-th value over the stored rows.
StoredMean(a, j) == Mean(Column(a, j))

\* All accumulators of the container are finalized.
AllFinalized == \A k \in 1..Len(obscont) : isFinalized(obscont[k])

\* The number of blocks divides the number of accumulated evaluations.
BlocksDivide(a) == a.nblocks > 0 /\ getNAccu(a) % a.nblocks = 0

\* C21: for the same observable, the same nskip and the same sequence of walker
\* states, the means of the data stored by a SimpleAccumulator, by a
\* FullAccumulator and by a BlockAccumulator whose nblocks divides getNAccu
\* are equal.
C21_SameMean ==
    (AllFinalized /\ BlocksDivide(obscont[3])) =>
        \A j \in 1..getNObs(Accu) :
            /\ StoredMean(obscont[1], j) = StoredMean(obscont[2], j)
            /\ StoredMean(obscont[3], j) = StoredMean(obscont[2], j)

\* Four steps with nskip 1 in two blocks of two, finalized, with block means
\* that differ from each other.
C21_Witness ==
    /\ AllFinalized /\ BlocksDivide(obscont[3])
    /\ Accu.nskip = 1 /\ getNSteps(Accu) = 4
    /\ obscont[3].nblocks = 2
    /\ obscont[3].data[1] # obscont[3].data[getNObs(Accu) + 1]
    /\ obscont[1].data[1] # RZero

\* The BlockAccumulator of the three, its block length and the values of
\* its row b.
BlockAccu == obscont[3]

BlockLength(a) == getNAccu(a) \div a.nblocks

BlockRow(a, b) == [j \in 1..getNObs(a) |-> a.data[b * getNObs(a) + j]]

MaxSelN == 3

\* XND::updatedObservable: the flagged components are taken from the position.
updatedObservable(id, x, flags, out) ==
    [j \in 1..Len(out) |-> IF j \in flags THEN RInt(x[j]) ELSE out[j]]

\* An accumulator with the base's buffers; upd: is the observable updateable.
AccuNewSelective(obs, est, nskip, upd) ==
    [obs |-> obs, est |-> est, nskip |-> nskip, equil |-> FALSE, nblocks |-> 0,
     nsteps |-> 0, stepidx |-> 0, final |-> FALSE, data |-> <<>>,
     upd |-> upd, obs_values |-> [j \in 1..ObsNObs(obs) |-> RZero],
     flags_xchanged |-> Dims]

\* _init: no value of the observable is known, every coordinate counts as
\* changed.
AccuInitSelective(a) ==
    [a EXCEPT !.obs_values = [j \in 1..getNObs(a) |-> RZero], !.flags_xchanged = Dims]

\* The row of a stored evaluation.
AccuStore(a, vals) ==
    LET nobs == getNObs(a)
        row == IF a.est = "Noop" THEN 0 ELSE a.stepidx \div a.nskip
    IN  [k \in 1..Len(a.data) |->
            IF (k - 1) \div nobs # row THEN a.data[k]
            ELSE IF a.est = "Noop" THEN RAdd(a.data[k], vals[((k - 1) % nobs) + 1])
                 ELSE vals[((k - 1) % nobs) + 1]]

\* accumulate that passes the change set of the evaluated step alone.
AccuAccumulateSelective_LastStepOnly(a, w) ==
    LET flags == IF ~w.accepted THEN {}
                 ELSE IF w.nchanged < NDIM THEN w.changedIdx ELSE Dims
        first == a.stepidx = 0
        eval == a.stepidx % a.nskip = 0
        vals == IF ~eval THEN a.obs_values
                ELSE IF first THEN observableValues(a.obs, w.xnew)
                ELSE IF flags = {} THEN a.obs_values
                ELSE IF a.upd /\ Cardinality(flags) < NDIM
                     THEN updatedObservable(a.obs, w.xnew, flags, a.obs_values)
                     ELSE observableValues(a.obs, w.xnew)
    IN  [a EXCEPT !.obs_values = vals,
                  !.flags_xchanged = IF eval THEN {} ELSE flags,
                  !.data = IF eval THEN AccuStore(a, vals) ELSE a.data,
                  !.stepidx = a.stepidx + 1]

\* accumulate(wlk) of the base: an accepted step adds its changed coordinates
\* to flags_xchanged (all of them when the move changed all); on every
\* nskip-th step the observable's values are the last ones when nothing
\* changed since the last evaluation (_processOld), updated on the flagged
\* coordinates when the observable is updateable and not all changed
\* (_processSelective), computed in full otherwise (_processFull), and are
\* stored; the flags are cleared by an evaluation.
AccuAccumulateSelective(a, w) ==
    LET flags == IF ~w.accepted THEN a.flags_xchanged
                 ELSE IF w.nchanged < NDIM THEN a.flags_xchanged \cup w.changedIdx
                      ELSE Dims
        eval == a.stepidx % a.nskip = 0
        vals == IF ~eval THEN a.obs_values
                ELSE IF flags = {} THEN a.obs_values
                ELSE IF a.upd /\ Cardinality(flags) < NDIM
                     THEN updatedObservable(a.obs, w.xnew, flags, a.obs_values)
                     ELSE observableValues(a.obs, w.xnew)
    IN  [a EXCEPT !.obs_values = vals,
                  !.flags_xchanged = IF eval THEN {} ELSE flags,
                  !.data = IF eval THEN AccuStore(a, vals) ELSE a.data,
                  !.stepidx = a.stepidx + 1]

\* The path an evaluation of the updateable accumulator takes for w.
SelectivePath(a, w) ==
    LET flags == IF ~w.accepted THEN a.flags_xchanged
                 ELSE IF w.nchanged < NDIM THEN a.flags_xchanged \cup w.changedIdx
                      ELSE Dims
    IN  IF a.stepidx % a.nskip # 0 THEN "skip"
        ELSE IF flags = {} THEN "old"
        ELSE IF a.upd /\ Cardinality(flags) < NDIM THEN "selective"
        ELSE "full"

\* The accumulator of the updateable observable and the one that recomputes.
SelAccu == obscont[1]

FullAccu == obscont[2]

SelFrame ==
    UNCHANGED <<domain, pdfcont, trialMove, acc, rej, ridx, targetaccrate,
                NfindMRT2Iterations, NdecorrelationSteps, cback, average, error, pc,
                find, dec, smp, estimated, ncalls, sinks>>

InitSelective ==
    /\ obsfile = NoFile /\ wlkfile = NoFile
    /\ \E est \in {"Noop", "Uncorrelated"}, nskip \in {1, 2} :
          obscont = <<AccuNewSelective("xnd", est, nskip, TRUE),
                      AccuNewSelective("xnd", est, nskip, FALSE)>>
    /\ domain = UnboundDomain
    /\ pdfcont = <<>>
    /\ trialMove = [kind |-> "all", nss |-> 1, idx |-> [i \in Dims |-> 1],
                    step |-> <<ROne>>, protonew |-> 0, protoold |-> 0]
    /\ wlkstate \in {WalkerInit(x) : x \in AccuXs}
    /\ acc = 0 /\ rej = 0 /\ ridx = 0
    /\ targetaccrate = <<1, 2>>
    /\ NfindMRT2Iterations = 0
    /\ NdecorrelationSteps = 0
    /\ cback = FALSE
    /\ average = <<>> /\ error = <<>>
    /\ pc = "idle"
    /\ args = [op |-> "construct"]
    /\ find = NoFind
    /\ dec = NoDec
    /\ smp = NoSmp
    /\ outcome = "ok"
    /\ trace = <<>>
    /\ pre = [accu |-> obscont[1], via |-> "new"]
    /\ estimated = [exists |-> FALSE, n |-> 0, xs |-> <<>>, data |-> <<>>, again |-> {}]
    /\ ncalls = 0

\* allocate(n) on both; accumulate(wlk) on both after a step of the walker
\* that was accepted (xnew is the proposal, which differs from the position
\* before in the coordinates of S at most) or rejected (xnew is the position
\* before); reset() on both.
NextSelective ==
    \/ \E n \in 1..MaxSelN :
          /\ args' = [op |-> "allocate", n |-> n]
          /\ obscont' = <<AccuInitSelective(AccuAllocate(SelAccu, n)),
                          AccuAllocate(FullAccu, n)>>
          /\ trace' = <<>>
          /\ pre' = [accu |-> SelAccu, via |-> "allocate"]
          /\ UNCHANGED <<wlkstate, outcome>>
          /\ SelFrame
    \/ \E ok \in BOOLEAN, S \in (SUBSET Dims) \ {{}}, y \in Positions(domain) :
          LET prop == [i \in Dims |-> IF i \in S THEN y[i] ELSE wlkstate.xold[i]]
              x == IF ok THEN prop ELSE wlkstate.xold
              w == [xold |-> x, xnew |-> x, nchanged |-> Cardinality(S),
                    changedIdx |-> S, accepted |-> ok]
          IN  /\ SelAccu.stepidx < SelAccu.nsteps
              /\ args' = [op |-> "accumulate", x |-> x]
              /\ wlkstate' = w
              /\ obscont' = <<AccuAccumulateSelective(SelAccu, w),
                              AccuAccumulate(FullAccu, w.xnew)>>
              /\ trace' = Append(trace, SelectivePath(SelAccu, w))
              /\ pre' = [accu |-> SelAccu, via |-> pre.via]
              /\ UNCHANGED outcome
              /\ SelFrame
    \/ /\ isAllocated(SelAccu)
       /\ args' = [op |-> "reset"]
       /\ obscont' = <<AccuInitSelective(AccuReset(SelAccu)), AccuReset(FullAccu)>>
       /\ trace' = <<>>
       /\ pre' = [accu |-> SelAccu, via |-> "reset"]
       /\ UNCHANGED <<wlkstate, outcome>>
       /\ SelFrame

SpecSelective == InitSelective /\ [][NextSelective]_vars

\* C34: the accumulator of an updateable observable, which keeps the last
\* values after rejected steps, gathers the change sets of the steps skipped
\* by nskip and updates only the gathered coordinates, holds at every moment
\* the same data as the accumulator that evaluates the observable in full at
\* every step that is not skipped.
C34_SelectiveTransparent ==
    /\ SelAccu.data = FullAccu.data
    /\ SelAccu.stepidx = FullAccu.stepidx

\* With nskip = 2, the third step was rejected and evaluated by an update on
\* the one coordinate an accepted second step had changed.
C34_Witness ==
    /\ SelAccu.nskip = 2 /\ SelAccu.est = "Uncorrelated" /\ SelAccu.stepidx = 3
    /\ trace = <<"full", "skip", "selective">>
    /\ ~wlkstate.accepted
    /\ SelAccu.data[1] # SelAccu.data[3]

\* ------------------------------------------------------------ proto values
\* The proto-value buffers of the sampling functions and of the trial move
\* under computeOldProtoValues, a proposal, newToOld and oldToNew in any order.

\* What the proto-function calls leave alone.
ProtoFrame ==
    UNCHANGED <<domain, obscont, wlkstate, acc, rej, ridx, targetaccrate,
                NfindMRT2Iterations, NdecorrelationSteps, cback, average, error, pc,
                find, dec, smp, outcome, trace, estimated, ncalls, sinks>>

InitProto ==
    /\ obsfile = NoFile /\ wlkfile = NoFile
    /\ pdfcont \in {<<PdfNew("peak")>>, <<PdfNew("flat"), PdfNew("peak")>>}
    /\ trialMove \in {[kind |-> k, nss |-> 1, idx |-> [i \in Dims |-> 1],
                       step |-> <<ROne>>, protonew |-> 0, protoold |-> 0] :
                         k \in {"all", "single"}}
    /\ domain = UnboundDomain
    /\ obscont = <<>>
    /\ wlkstate = WalkerInit(Origin)
    /\ acc = 0 /\ rej = 0 /\ ridx = 0
    /\ targetaccrate = <<1, 2>>
    /\ NfindMRT2Iterations = 0
    /\ NdecorrelationSteps = 0
    /\ cback = FALSE
    /\ average = <<>> /\ error = <<>>
    /\ pc = "idle"
    /\ args = [op |-> "construct", x |-> Origin]
    /\ find = NoFind
    /\ dec = NoDec
    /\ smp = NoSmp
    /\ outcome = "ok"
    /\ trace = <<>>
    /\ pre = [pdfcont |-> pdfcont, trialMove |-> trialMove]
    /\ estimated = <<>>
    /\ ncalls = 0

\* computeOldProtoValues(x), protoFunction(x, protonew) for a proposal,
\* newToOld() and oldToNew(), each on every proto function of the engine
NextProto ==
    \/ \E x \in Positions(domain) :
          /\ args' = [op |-> "computeOldProtoValues", x |-> x]
          /\ pdfcont' = PdfContInitialize(pdfcont, x)
          /\ trialMove' = MoveComputeOld(trialMove, x)
          /\ pre' = [pdfcont |-> pdfcont, trialMove |-> trialMove]
          /\ ProtoFrame
    \/ \E x \in Positions(domain) :
          /\ args' = [op |-> "protoFunction", x |-> x]
          /\ pdfcont' = PdfContPropose(pdfcont, x)
          /\ trialMove' = [trialMove EXCEPT !.protonew = protoFunctionMove(x)]
          /\ pre' = [pdfcont |-> pdfcont, trialMove |-> trialMove]
          /\ ProtoFrame
    \/ /\ args' = [op |-> "newToOld", x |-> args.x]
       /\ pdfcont' = PdfContNewToOld(pdfcont)
       /\ trialMove' = MoveNewToOld(trialMove)
       /\ pre' = [pdfcont |-> pdfcont, trialMove |-> trialMove]
       /\ ProtoFrame
    \/ /\ args' = [op |-> "oldToNew", x |-> args.x]
       /\ pdfcont' = PdfContOldToNew(pdfcont)
       /\ trialMove' = MoveOldToNew(trialMove)
       /\ pre' = [pdfcont |-> pdfcont, trialMove |-> trialMove]
       /\ ProtoFrame

SpecProto == InitProto /\ [][NextProto]_vars

\* The proto functions of the engine: the sampling functions and the trial move.
ProtoFunctions(cont, tm) == {cont[k] : k \in 1..Len(cont)} \cup {tm}

\* Both buffers of every proto function hold the same values.
BuffersAgree(cont, tm) == \A f \in ProtoFunctions(cont, tm) : f.protonew = f.protoold

\* C22: after computeOldProtoValues(x) both buffers of a proto function equal
\* f(x); after newToOld() or oldToNew() alone the two buffers agree; newToOld()
\* followed by oldToNew() leaves both buffers equal to the new values held
\* before the two calls.
C22_ProtoBuffers ==
    [][/\ args'.op = "computeOldProtoValues" =>
             /\ \A k \in 1..Len(pdfcont') :
                   /\ pdfcont'[k].protonew = protoFunctionPdf(pdfcont'[k].id, args'.x)
                   /\ pdfcont'[k].protoold = protoFunctionPdf(pdfcont'[k].id, args'.x)
             /\ trialMove'.protonew = protoFunctionMove(args'.x)
             /\ trialMove'.protoold = protoFunctionMove(args'.x)
       /\ args'.op \in {"newToOld", "oldToNew"} => BuffersAgree(pdfcont', trialMove')
       /\ (args.op = "newToOld" /\ args'.op = "oldToNew") =>
             /\ \A k \in 1..Len(pdfcont') :
                   /\ pdfcont'[k].protonew = pre.pdfcont[k].protonew
                   /\ pdfcont'[k].protoold = pre.pdfcont[k].protonew
             /\ trialMove'.protonew = pre.trialMove.protonew
             /\ trialMove'.protoold = pre.trialMove.protonew]_vars

\* oldToNew() was called on two sampling functions and the trial move whose
\* buffers agreed (as after newToOld()) on the values of a proposal at x[1] = 1.
C22_Witness ==
    /\ args.op = "oldToNew" /\ args.x[1] = 1
    /\ BuffersAgree(pdfcont, trialMove)
    /\ pre.pdfcont = pdfcont /\ pre.trialMove = trialMove
    /\ Len(pdfcont) = 2 /\ pdfcont[2].protoold = 1
    /\ trialMove.protoold = 1

\* ------------------------------------------------------------ the text sinks
\* integrate() on an engine whose sinks were asked for with
\* storeObservablesOnFile(path, freq) and storeWalkerPositionsOnFile(path, freq);
\* the paths stay the same from call to call.

InitFile ==
    /\ obsfile \in {[NoFile EXCEPT !.flag = TRUE, !.freq = f] : f \in {1, 2}}
    /\ wlkfile \in {NoFile, [NoFile EXCEPT !.flag = TRUE]}
    /\ domain = UnboundDomain
    /\ pdfcont = <<PdfNew("peak")>>
    /\ trialMove \in {m \in MoveChoices : m.kind = "all"}
    /\ obscont \in {<<>>, <<AccuNew("x1", "Uncorrelated", 1, TRUE)>>,
                    <<AccuNew("partial", "Uncorrelated", 2, FALSE)>>}
    /\ wlkstate = WalkerInit(Origin)
    /\ acc = 0 /\ rej = 0 /\ ridx = 0
    /\ targetaccrate = <<1, 2>>
    /\ NfindMRT2Iterations = 0
    /\ NdecorrelationSteps = 0
    /\ cback = FALSE
    /\ average = <<>> /\ error = <<>>
    /\ pc = "idle"
    /\ args = NoArgs
    /\ find = NoFind
    /\ dec = NoDec
    /\ smp = NoSmp
    /\ outcome = "none"
    /\ trace = <<>>
    /\ pre = Engine
    /\ estimated = <<>>
    /\ ncalls = 0

\* The calls of integrate() followed on an engine with sinks.
MaxFileCalls == 2

NextFile ==
    \/ \E n \in NmcValues : ncalls < MaxFileCalls /\ IntegrateEnter(n, FALSE, FALSE)
    \/ IntegrateTune
    \/ IntegrateDecorr
    \/ IntegrateMain
    \/ IntegrateSample
    \/ SampleStep
    \/ SampleInc
    \/ IntegrateEstimate
    \/ IntegrateDeallocate

SpecFile == InitFile /\ [][NextFile]_vars

\* s is the beginning of t.
IsPrefix(s, t) == Len(s) <= Len(t) /\ \A k \in 1..Len(s) : s[k] = t[k]

\* C26 (as stated): the sinks are append-only: no step of an integrate() call
\* removes or rewrites a line that is in the file of a sink, lines are only
\* added after those there.
C26_AppendOnly ==
    [][/\ IsPrefix(obsfile.lines, obsfile'.lines)
       /\ IsPrefix(wlkfile.lines, wlkfile'.lines)]_vars

\* ------------------------------------------------ the target acceptance rate
\* An engine with a sampling function whose target acceptance rate is set, and
\* which is then tuned by integrate(0, ..., doFindMRT2step = true, false).

\* MCI::setTargetAcceptanceRate
setTargetAcceptanceRate(t) ==
    /\ pc = "idle"
    /\ targetaccrate' = t
    /\ UNCHANGED <<domain, pdfcont, trialMove, obscont, wlkstate, acc, rej, ridx,
                   NfindMRT2Iterations, NdecorrelationSteps, cback, average, error, pc,
                   args, find, dec, smp, outcome, trace, pre, estimated, ncalls, sinks>>

InitTarget ==
    /\ obsfile = NoFile /\ wlkfile = NoFile
    /\ domain \in {UnboundDomain, OrthoPeriodicDomain(<<3, 4>>)}
    /\ pdfcont = <<PdfNew("peak")>>
    /\ trialMove \in MoveChoices
    /\ obscont = <<>>
    /\ wlkstate = WalkerInit(Origin)
    /\ acc = 0 /\ rej = 0 /\ ridx = 0
    /\ targetaccrate = <<1, 2>>
    /\ NfindMRT2Iterations \in {-2, 1}
    /\ NdecorrelationSteps = 0
    /\ cback = FALSE
    /\ average = <<>> /\ error = <<>>
    /\ pc = "idle"
    /\ args = NoArgs
    /\ find = NoFind
    /\ dec = NoDec
    /\ smp = NoSmp
    /\ outcome = "none"
    /\ trace = <<>>
    /\ pre = Engine
    /\ estimated = <<>>
    /\ ncalls = 0

NextTarget ==
    \/ \E t \in {RZero, <<1, 4>>, <<1, 2>>, ROne, RInt(2)} : setTargetAcceptanceRate(t)
    \/ IntegrateCall(0, TRUE, FALSE)
    \/ IntegrateTune
    \/ FindEntry
    \/ FindLoopHead
    \/ FindAfterSample
    \/ SampleStep
    \/ SampleInc
    \/ IntegrateDecorr
    \/ IntegrateMain

SpecTarget == InitTarget /\ [][NextTarget]_vars

\* C27 (as stated): the target acceptance rate is always strictly between 0
\* and 1, so that rate / target in the tuning never divides by zero.
C27_TargetInUnitInterval ==
    /\ RLt(RZero, targetaccrate) /\ RLt(targetaccrate, ROne)
    /\ (pc = "find_post" => targetaccrate[1] # 0)

\* ------------------------------------------------------ automatic burn-in
\* integrate(0, ..., false, doDecorrelation = true) on an engine with flagged
\* observables and a step cap that lets the loop make two tests.

InitBurnin ==
    /\ obsfile = NoFile /\ wlkfile = NoFile
    /\ domain = UnboundDomain
    /\ pdfcont = <<PdfNew("peak")>>
    /\ trialMove \in MoveChoices
    /\ obscont \in {<<AccuNew("x1", "Uncorrelated", 1, TRUE)>>,
                    <<AccuNew("const", "Noop", 1, FALSE),
                      AccuNew("x1", "Uncorrelated", 2, TRUE)>>}
    /\ wlkstate = WalkerInit(Origin)
    /\ acc = 0 /\ rej = 0 /\ ridx = 0
    /\ targetaccrate = <<1, 2>>
    /\ NfindMRT2Iterations = 0
    /\ NdecorrelationSteps \in {-4, -6}
    /\ cback = FALSE
    /\ average = <<>> /\ error = <<>>
    /\ pc = "idle"
    /\ args = NoArgs
    /\ find = NoFind
    /\ dec = NoDec
    /\ smp = NoSmp
    /\ outcome = "none"
    /\ trace = <<>>
    /\ pre = Engine
    /\ estimated = <<>>
    /\ ncalls = 0

NextBurnin ==
    \/ IntegrateCall(0, FALSE, TRUE)
    \/ IntegrateTune
    \/ IntegrateDecorr
    \/ DecorrEntry
    \/ DecorrFirst
    \/ DecorrLoop
    \/ SampleStep
    \/ SampleInc
    \/ IntegrateMain

SpecBurnin == InitBurnin /\ [][NextBurnin]_vars

\* A batch of the loop has been sampled and its estimate can be made.
BatchSampled == pc = "dec_loop" /\ ~ContEstimateRaises(dec.obs_equil)

\* The temporary container holds the MIN_NMC steps of one batch and no more.
HoldsOneBatch ==
    \A k \in 1..Len(dec.obs_equil) :
        /\ dec.obs_equil[k].stepidx = MIN_NMC
        /\ Len(dec.obs_equil[k].data) = MIN_NMC * getNObs(dec.obs_equil[k])

\* C31 (as stated): after each further batch the loop continues iff some
\* component differs significantly between the old and the new estimate.
C31_ContinuesIffSignificant ==
    [][BatchSampled =>
          (pc' = "smp_body"
              <=> SignificantDifference(dec.oldestimate, ContEstimate(dec.obs_equil)))]_vars

\* C31, amended: after each further batch, unless the step cap was reached with
\* it, the loop continues iff some component differs significantly between
\* the old and the new estimate; the new estimate is that of the batch just
\* sampled alone, and it becomes the old one of the next test.
C31_ContinueRule ==
    [][BatchSampled =>
          /\ HoldsOneBatch
          /\ pc' = "smp_body"
                <=> /\ dec.countNMC + MIN_NMC < Abs(NdecorrelationSteps)
                    /\ SignificantDifference(dec.oldestimate, ContEstimate(dec.obs_equil))
          /\ pc' = "smp_body" =>
                /\ dec'.oldestimate = ContEstimate(dec.obs_equil)
                /\ \A k \in 1..Len(dec'.obs_equil) : isClean(dec'.obs_equil[k])]_vars

\* The second test of a burn-in: the old estimate is that of the loop's first
\* batch, not of the batch sampled before the loop, and the two differ.
C31_Witness ==
    /\ BatchSampled /\ dec.countNMC = MIN_NMC
    /\ dec.countNMC + MIN_NMC < Abs(NdecorrelationSteps)
    /\ SignificantDifference(dec.oldestimate, ContEstimate(dec.obs_equil))
    /\ dec.oldestimate[1].avg # RZero

\* ------------------------------------------------- vanishing density
\* integrate() with a sampling function whose density is 0 where x1 = 1: no
\* tuning, no burn-in, a main run of up to MaxNmc + 1 steps.

InitZero ==
    /\ obsfile = NoFile /\ wlkfile = NoFile
    /\ domain = UnboundDomain
    /\ pdfcont = <<PdfNew("edge")>>
    /\ trialMove \in MoveChoices
    /\ obscont \in {<<>>, <<AccuNew("x1", "Uncorrelated", 1, FALSE)>>}
    /\ wlkstate = WalkerInit(Origin)
    /\ acc = 0 /\ rej = 0 /\ ridx = 0
    /\ targetaccrate = <<1, 2>>
    /\ NfindMRT2Iterations = 0
    /\ NdecorrelationSteps = 0
    /\ cback \in BOOLEAN
    /\ average = <<>> /\ error = <<>>
    /\ pc = "idle"
    /\ args = NoArgs
    /\ find = NoFind
    /\ dec = NoDec
    /\ smp = NoSmp
    /\ outcome = "none"
    /\ trace = <<>>
    /\ pre = Engine
    /\ estimated = <<>>
    /\ ncalls = 0

NextZero ==
    \/ \E n \in 1..(MaxNmc + 1) : IntegrateCall(n, FALSE, FALSE)
    \/ IntegrateTune
    \/ IntegrateDecorr
    \/ IntegrateMain
    \/ IntegrateSample
    \/ SampleStep
    \/ SampleInc
    \/ IntegrateEstimate
    \/ IntegrateDeallocate

SpecZero == InitZero /\ [][NextZero]_vars

\* C35: an MRT2 step from a position of positive density whose proposal has
\* density 0, so that the acceptance factor is 0, is not accepted, whatever
\* the draw u: an accepted step never leaves the walker where the density
\* vanishes.
C35_ZeroNeverAccepted ==
    [][(pc = "smp_body" /\ hasPDF(pdfcont)
        /\ (\A k \in 1..Len(pdfcont) : pdfcont[k].protoold > 0)
        /\ wlkstate'.accepted)
          => \A k \in 1..Len(pdfcont) :
                protoFunctionPdf(pdfcont[k].id, wlkstate'.xold) > 0]_vars

\* ------------------------------------------------- observing the PDF
\* integrate() on an engine whose container holds an observable that depends
\* on the PDF: automatic burn-in on its clone when it is flagged, then a main
\* run of up to MaxPdfN steps.

MaxPdfN == 4

InitPdfObs ==
    /\ obsfile = NoFile /\ wlkfile = NoFile
    /\ domain = UnboundDomain
    /\ pdfcont = <<PdfNew("peak")>>
    /\ trialMove \in MoveChoices
    /\ obscont \in {<<AccuNew("pdfx1", "Uncorrelated", 1, FALSE)>>,
                    <<AccuNew("pdfx1", "Uncorrelated", 2, TRUE)>>,
                    <<AccuNew("x1", "Noop", 1, FALSE),
                      AccuNew("pdfx1", "Uncorrelated", 3, FALSE)>>}
    /\ wlkstate = WalkerInit(Origin)
    /\ acc = 0 /\ rej = 0 /\ ridx = 0
    /\ targetaccrate = <<1, 2>>
    /\ NfindMRT2Iterations = 0
    /\ NdecorrelationSteps = -4
    /\ cback = FALSE
    /\ average = <<>> /\ error = <<>>
    /\ pc = "idle"
    /\ args = NoArgs
    /\ find = NoFind
    /\ dec = NoDec
    /\ smp = NoSmp
    /\ outcome = "none"
    /\ trace = <<>>
    /\ pre = Engine
    /\ estimated = <<>>
    /\ ncalls = 0

NextPdfObs ==
    \/ \E n \in 1..MaxPdfN, d \in BOOLEAN : IntegrateCall(n, FALSE, d)
    \/ IntegrateTune
    \/ IntegrateDecorr
    \/ DecorrEntry
    \/ DecorrFirst
    \/ DecorrLoop
    \/ IntegrateMain
    \/ IntegrateSample
    \/ SampleStep
    \/ SampleInc
    \/ IntegrateEstimate
    \/ IntegrateDeallocate

SpecPdfObs == InitPdfObs /\ [][NextPdfObs]_vars

\* Is the PDF observed in step r of the running sample().
PDFObserved(r) == getNSkipPDF(Container) # 0 /\ r % getNSkipPDF(Container) = 0

\* C36: in a run with observables that depend on the PDF, after every step in
\* which the PDF is observed prepareObservation has been called in this run,
\* in that step or in an earlier one that is not older than the last accepted
\* move; and a call is made only in a step that observes the PDF, and after
\* the first call only when a move was accepted since the call before.
C36_PreparedWhenObserved ==
    /\ []((pc = "smp_inc" /\ smp.cont # "none" /\ PDFObserved(ridx))
            => (smp.lastprep >= 0 /\ smp.lastprep >= smp.lastacc))
    /\ [][(pc = "smp_body" /\ pc' = "smp_inc" /\ smp'.lastprep # smp.lastprep)
            => /\ smp'.lastprep = ridx
               /\ PDFObserved(ridx)
               /\ (smp.lastprep = -1 \/ smp'.lastacc > smp.lastprep)]_vars

\* The third step of a main run that observes the PDF in every second step:
\* rejected, and prepared for the move accepted in the step before.
C36_Witness ==
    /\ pc = "smp_inc" /\ smp.cont = "main" /\ getNSkipPDF(obscont) = 2
    /\ ridx = 2 /\ ~wlkstate.accepted
    /\ smp.lastacc = 1 /\ smp.lastprep = 2

\* ------------------------------------------- the phases before the main run
\* integrate() with tuning and burn-in on an engine with sinks, called a
\* second time when the first call has left lines in the files and, after an
\* exception, allocated accumulators.

InitPhases ==
    /\ obsfile = [NoFile EXCEPT !.flag = TRUE]
    /\ wlkfile = [NoFile EXCEPT !.flag = TRUE]
    /\ domain = UnboundDomain
    /\ pdfcont = <<PdfNew("peak")>>
    /\ trialMove \in {m \in MoveChoices : m.kind = "all"}
    /\ obscont \in {<<AccuNew("x1", "Uncorrelated", 1, TRUE)>>,
                    <<AccuNew("partial", "Uncorrelated", 1, FALSE),
                      AccuNew("x1", "Noop", 1, TRUE)>>}
    /\ wlkstate = WalkerInit(Origin)
    /\ acc = 0 /\ rej = 0 /\ ridx = 0
    /\ targetaccrate = <<1, 2>>
    /\ NfindMRT2Iterations = 1
    /\ NdecorrelationSteps \in {2, -4}
    /\ cback = FALSE
    /\ average = <<>> /\ error = <<>>
    /\ pc = "idle"
    /\ args = NoArgs
    /\ find = NoFind
    /\ dec = NoDec
    /\ smp = NoSmp
    /\ outcome = "none"
    /\ trace = <<>>
    /\ pre = Engine
    /\ estimated = <<>>
    /\ ncalls = 0

NextPhases ==
    \/ \E n \in {0, 1}, f \in BOOLEAN, d \in BOOLEAN :
          ncalls < MaxFileCalls /\ IntegrateEnter(n, f, d)
    \/ IntegrateTune
    \/ FindEntry
    \/ FindLoopHead
    \/ FindAfterSample
    \/ IntegrateDecorr
    \/ DecorrEntry
    \/ DecorrFirst
    \/ DecorrLoop
    \/ IntegrateMain
    \/ IntegrateSample
    \/ SampleStep
    \/ SampleInc
    \/ IntegrateEstimate
    \/ IntegrateDeallocate

SpecPhases == InitPhases /\ [][NextPhases]_vars

\* The running call is in findMRT2Step or in initialDecorrelation.
TuningOrBurnin ==
    \/ pc \in {"find_entry", "find_head", "find_post", "dec_entry", "dec_first",
               "dec_loop"}
    \/ pc \in {"smp_body", "smp_inc"} /\ smp.cont # "main"

\* C38: no step of the tuning or of the burn-in, fixed or automatic, changes
\* an accumulator of the engine's own container or a line of the two files;
\* the automatic burn-in accumulates into a temporary container that holds a
\* clone of every flagged observable and of no other.
C38_OwnContainerUntouched ==
    [][TuningOrBurnin =>
          /\ obscont' = obscont
          /\ obsfile' = obsfile
          /\ wlkfile' = wlkfile
          /\ (pc = "smp_body" /\ pc' = "smp_inc") =>
                IF smp.cont = "equil"
                THEN /\ Len(dec'.obs_equil) = Len(EquilContainer(obscont))
                     /\ \A k \in 1..Len(dec.obs_equil) :
                           /\ dec'.obs_equil[k].obs = EquilContainer(obscont)[k].obs
                           /\ dec'.obs_equil[k].stepidx = dec.obs_equil[k].stepidx + 1
                ELSE dec' = dec]_vars

\* A batch of the automatic burn-in of a second call has taken a step, while
\* the own container is allocated and the streams are open, as the exception
\* that ended the first call left them.
C38_Witness ==
    /\ pc = "smp_inc" /\ smp.cont = "equil" /\ ncalls = 2
    /\ obsfile.isopen /\ wlkfile.isopen
    /\ Len(dec.obs_equil) = 1 /\ dec.obs_equil[1].stepidx = 1
    /\ Len(obscont) = 2 /\ isAllocated(obscont[1])

\* ------------------------------------------------ step sizes by index
\* getMRT2Step(i) and setMRT2Step(i, v) on the engines of the tuning, for the
\* indices -1 .. 2 (i counts from 0, the slots of the model from 1).  What a
\* call did is kept in args: the index, the value set or returned, and the
\* note whether the call was handed on to the trial move with that index.
\* A trial move asked for a slot it does not have reads or writes outside its
\* step sizes: the value read is any value, and the call may end the program.

StepIndices == (-1)..2

StepValues == {<<1, 2>>, ROne, RInt(2)}

StepFrame ==
    UNCHANGED <<domain, pdfcont, obscont, wlkstate, acc, rej, ridx, targetaccrate,
                NfindMRT2Iterations, NdecorrelationSteps, cback, average, error, pc,
                find, dec, smp, trace, pre, estimated, ncalls, sinks>>

\* MCI::setMRT2Step(int i, double mrt2step)
setMRT2Step(i, v) ==
    /\ pc = "idle"
    /\ IF i < trialMove.nss
       THEN /\ args' = [op |-> "setMRT2Step", i |-> i, v |-> v, fwd |-> TRUE]
            /\ IF i >= 0
               THEN /\ trialMove' = setStepSize(trialMove, i + 1, v)
                    /\ outcome' = "ok"
               ELSE /\ trialMove' = trialMove
                    /\ outcome' \in {"ok", "error"}
       ELSE /\ args' = [op |-> "setMRT2Step", i |-> i, v |-> v, fwd |-> FALSE]
            /\ trialMove' = trialMove
            /\ outcome' = "ok"
    /\ StepFrame

\* MCI::getMRT2Step(int i)
getMRT2Step(i) ==
    /\ pc = "idle"
    /\ IF i < trialMove.nss
       THEN IF i >= 0
            THEN /\ args' = [op |-> "getMRT2Step", i |-> i, v |-> trialMove.step[i + 1],
                             fwd |-> TRUE]
                 /\ outcome' = "ok"
            ELSE /\ \E v \in StepValues \cup {RZero} :
                       args' = [op |-> "getMRT2Step", i |-> i, v |-> v, fwd |-> TRUE]
                 /\ outcome' \in {"ok", "error"}
       ELSE /\ args' = [op |-> "getMRT2Step", i |-> i, v |-> RZero, fwd |-> FALSE]
            /\ outcome' = "ok"
    /\ UNCHANGED trialMove
    /\ StepFrame

InitStep ==
    /\ obsfile = NoFile /\ wlkfile = NoFile
    /\ domain = UnboundDomain
    /\ pdfcont = <<PdfNew("peak")>>
    /\ trialMove \in TuneMoves
    /\ obscont = <<>>
    /\ wlkstate = WalkerInit(Origin)
    /\ acc = 0 /\ rej = 0 /\ ridx = 0
    /\ targetaccrate = <<1, 2>>
    /\ NfindMRT2Iterations = 0
    /\ NdecorrelationSteps = 0
    /\ cback = FALSE
    /\ average = <<>> /\ error = <<>>
    /\ pc = "idle"
    /\ args = [op |-> "construct"]
    /\ find = NoFind
    /\ dec = NoDec
    /\ smp = NoSmp
    /\ outcome = "none"
    /\ trace = <<>>
    /\ pre = Engine
    /\ estimated = <<>>
    /\ ncalls = 0

NextStep ==
    \/ \E i \in StepIndices, v \in StepValues : setMRT2Step(i, v)
    \/ \E i \in StepIndices : getMRT2Step(i)

SpecStep == InitStep /\ [][NextStep]_vars

\* C39 (as stated): for an index i that is not a step-size index (i < 0 or
\* i >= nStepSizes) getMRT2Step(i) returns 0, setMRT2Step(i, v) leaves every
\* step size as it was, and no slot outside the step sizes is read or written.
C39_InvalidIndexIgnored ==
    [][(args'.op \in {"setMRT2Step", "getMRT2Step"}
        /\ (args'.i < 0 \/ args'.i >= trialMove.nss))
          => /\ ~args'.fwd
             /\ trialMove' = trialMove
             /\ outcome' = "ok"
             /\ (args'.op = "getMRT2Step" => args'.v = RZero)]_vars

\* ------------------------------------------------- the walker and the domain
\* The public calls that move the walker or replace the domain, and the MC
\* steps of integrate(), on one engine.

\* The periodic boxes handed to setDomain and setIRange.
DomainSizes == {<<2, 2>>, <<3, 3>>, <<1, 2>>}

\* The coordinates handed to setX.
DomainValues == (-1)..3

\* MCI::resetDomain
resetDomain ==
    /\ SetterCall([op |-> "resetDomain"])
    /\ domain' = UnboundDomain
    /\ wlkstate' = [wlkstate EXCEPT !.xold = applyDomain(UnboundDomain, wlkstate.xold)]
    /\ outcome' = "ok"
    /\ UNCHANGED <<trialMove, pdfcont, obscont>>

\* setIRange that leaves the walker where it was.
setIRange_NoApply(sz) ==
    /\ SetterCall([op |-> "setIRange", size |-> sz])
    /\ domain' = OrthoPeriodicDomain(sz)
    /\ outcome' = "ok"
    /\ UNCHANGED <<wlkstate, trialMove, pdfcont, obscont>>

\* MCI::setIRange(lbound, ubound) and MCI::setIRange(lbounds[], ubounds[]),
\* with sz the edge lengths of the box.
setIRange(sz) ==
    /\ SetterCall([op |-> "setIRange", size |-> sz])
    /\ domain' = OrthoPeriodicDomain(sz)
    /\ wlkstate' = [wlkstate EXCEPT
                        !.xold = applyDomain(OrthoPeriodicDomain(sz), wlkstate.xold)]
    /\ outcome' = "ok"
    /\ UNCHANGED <<trialMove, pdfcont, obscont>>

\* MCI::setX(int i, double val)
setXi(i, val) ==
    /\ SetterCall([op |-> "setX", i |-> i, val |-> val])
    /\ wlkstate' = [wlkstate EXCEPT
                        !.xold = applyDomain(domain, [wlkstate.xold EXCEPT ![i] = val])]
    /\ outcome' = "ok"
    /\ UNCHANGED <<domain, trialMove, pdfcont, obscont>>

\* MCI::setX(const double x[])
setX(x) ==
    /\ SetterCall([op |-> "setX", x |-> x])
    /\ wlkstate' = [wlkstate EXCEPT !.xold = applyDomain(domain, x)]
    /\ outcome' = "ok"
    /\ UNCHANGED <<domain, trialMove, pdfcont, obscont>>

\* MCI::moveX: a trial move that is always accepted.
moveX ==
    /\ SetterCall([op |-> "moveX"])
    /\ \E q \in MoveProposals(trialMove, wlkstate.xold) :
          LET w0 == WalkerOldToNew(wlkstate)
              w1 == [w0 EXCEPT !.xnew = applyDomainSelective(domain, q.xnew, q.changedIdx),
                               !.nchanged = Cardinality(q.changedIdx),
                               !.changedIdx = q.changedIdx]
          IN  /\ wlkstate' = WalkerNewToOld(w1)
              /\ trialMove' = [trialMove EXCEPT !.protonew = protoFunctionMove(q.xnew)]
    /\ outcome' = "ok"
    /\ UNCHANGED <<domain, pdfcont, obscont>>

\* MCI::newRandomX, with x the draw scaled to the domain.
newRandomX ==
    /\ SetterCall([op |-> "newRandomX"])
    /\ \E x \in Positions(domain) :
          wlkstate' = WalkerNewToOld([wlkstate EXCEPT !.xnew = x])
    /\ outcome' = "ok"
    /\ UNCHANGED <<domain, trialMove, pdfcont, obscont>>

InitDomain ==
    /\ obsfile = NoFile /\ wlkfile = NoFile
    /\ domain = UnboundDomain
    /\ pdfcont \in PdfChoices
    /\ trialMove \in MoveChoices
    /\ obscont = <<AccuNew("x1", "Noop", 1, FALSE)>>
    /\ wlkstate = WalkerInit(Origin)
    /\ acc = 0 /\ rej = 0 /\ ridx = 0
    /\ targetaccrate = <<1, 2>>
    /\ NfindMRT2Iterations = 0
    /\ NdecorrelationSteps = 0
    /\ cback = FALSE
    /\ average = <<>> /\ error = <<>>
    /\ pc = "idle"
    /\ args = NoArgs
    /\ find = NoFind
    /\ dec = NoDec
    /\ smp = NoSmp
    /\ outcome = "none"
    /\ trace = <<>>
    /\ pre = Engine
    /\ estimated = <<>>
    /\ ncalls = 0

NextDomain ==
    \/ \E sz \in DomainSizes : setDomain(OrthoPeriodicDomain(sz))
    \/ resetDomain
    \/ \E sz \in DomainSizes : setIRange(sz)
    \/ \E i \in Dims, val \in DomainValues : setXi(i, val)
    \/ \E x \in [Dims -> {-1, 3}] : setX(x)
    \/ moveX
    \/ newRandomX
    \/ ncalls < MaxSetup /\ IntegrateEnter(1, FALSE, FALSE)
    \/ IntegrateTune
    \/ IntegrateDecorr
    \/ IntegrateMain
    \/ IntegrateSample
    \/ SampleStep
    \/ SampleInc
    \/ IntegrateEstimate
    \/ IntegrateDeallocate

SpecDomain == InitDomain /\ [][NextDomain]_vars

\* Is the position x inside the domain d ?
InDomain(d, x) == d.finite => \A i \in Dims : 0 <= x[i] /\ x[i] < d.size[i]

\* C40: after construction, after every public call that replaces the domain
\* or moves the walker (setDomain, resetDomain, setIRange, setX, newRandomX,
\* moveX) and after every completed MRT2 or uniform step, every coordinate of
\* xold lies within the bounds of the configured domain, whether the trial move
\* changed one coordinate or all of them.
C40_XoldInDomain == InDomain(domain, wlkstate.xold)

\* A single-coordinate step left the box over its upper edge and was wrapped
\* to the lower one, after setIRange and setX had placed the walker there.
C40_Witness ==
    /\ pc = "smp_inc"
    /\ domain = OrthoPeriodicDomain(<<3, 3>>)
    /\ trialMove.kind = "single"
    /\ pre.wlkstate.xold[1] = 2
    /\ wlkstate.xold[1] = 0
    /\ wlkstate.accepted

====
